---- MODULE Spec2Model ----
(***************************************************************************)
(* Model of the diffusion load-balancing grid of repa                      *)
(* (src/repa/grids/diffusion.cpp).                                         *)
(*                                                                         *)
(* Every rank keeps its own copy of the partition vector and the local     *)
(* structures that reinit() derives from it.  A repartition call is        *)
(* collective: its two point-to-point communication steps only read and    *)
(* write rank-local state and every receive is matched with the send of    *)
(* the same step, so the communication part of a round is one action;      *)
(* the callback and the rebuild (reinit) are taken rank by rank.           *)
(*                                                                         *)
(* Weights are integers and send volumes are kept as exact fractions       *)
(* (numerators over one common denominator); the 0/0 of                    *)
(* compute_send_volume is kept as NaN.                                     *)
(***************************************************************************)
EXTENDS Integers, Sequences, FiniteSets, TLC

\* Largest weight the metric returns for a cell.
MaxWeight == 1

UNKNOWN == -1

(***************************************************************************)
(* Global box: cell grid, row-major linearization, periodic full shell.    *)
(***************************************************************************)
\* Neighbor 0 is the cell itself, 1..13 the half shell, 14..26 the rest.
NeighborOffsets ==
    << <<0, 0, 0>>,
       <<1, 0, 0>>, <<-1, 1, 0>>, <<0, 1, 0>>, <<1, 1, 0>>,
       <<-1, -1, 1>>, <<0, -1, 1>>, <<1, -1, 1>>,
       <<-1, 0, 1>>, <<0, 0, 1>>, <<1, 0, 1>>,
       <<-1, 1, 1>>, <<0, 1, 1>>, <<1, 1, 1>>,
       <<-1, 0, 0>>, <<1, -1, 0>>, <<0, -1, 0>>, <<-1, -1, 0>>,
       <<1, 1, -1>>, <<0, 1, -1>>, <<-1, 1, -1>>,
       <<1, 0, -1>>, <<0, 0, -1>>, <<-1, 0, -1>>,
       <<1, -1, -1>>, <<0, -1, -1>>, <<-1, -1, -1>> >>

ncells(g) == g[1] * g[2] * g[3]

linearize(c, g) == (c[1] * g[2] + c[2]) * g[3] + c[3]

unlinearize(i, g) == << i \div (g[2] * g[3]), (i \div g[3]) % g[2], i % g[3] >>

neighbor(i, k, g) ==
    LET c == unlinearize(i, g)
        o == NeighborOffsets[k + 1]
    IN  linearize(<< (c[1] + o[1] + g[1]) % g[1],
                     (c[2] + o[2] + g[2]) % g[2],
                     (c[3] + o[3] + g[3]) % g[3] >>, g)

\* The function f with all its values computed: TLC computes the values of a
\* function constructor only where they are used, and again at every use.
Eval(f) == f @@ << >>

\* The configurations (number of ranks, cell grid) a grid is constructed with.
Grids == {<<4, 1, 1>>, <<5, 1, 1>>, <<6, 1, 1>>, <<2, 2, 1>>, <<1, 2, 2>>}

Configs == [size : {2, 3}, grid : Grids] \cup {[size |-> 4, grid |-> <<5, 1, 1>>]}

\* neighbor() tabulated for every grid: NeighTable[g][i][k + 1].
NeighTable ==
    Eval([g \in Grids |->
        Eval([i \in 0..(ncells(g) - 1) |->
            Eval([k \in 1..27 |-> neighbor(i, k - 1, g)])])])

\* The same without the cell itself: NeighTable26[g][i][k], k in 1..26.
NeighTable26 ==
    Eval([g \in Grids |->
        Eval([i \in 0..(ncells(g) - 1) |-> SubSeq(NeighTable[g][i], 2, 27)])])

\* The cells of the full shell of cell i, as a set.
ShellTable ==
    Eval([g \in Grids |->
        Eval([i \in 0..(ncells(g) - 1) |-> {NeighTable[g][i][k] : k \in 1..27}])])

VARIABLES
    comm_size,        \* comm_cart.size()
    gbox,             \* gbox.grid_size()
    partition,        \* partition[r][c]: owner of global cell c as rank r knows it
    localCells,       \* localCells[r]
    ghostCells,       \* ghostCells[r]
    cells,            \* cells[r]: global indices of the local, then the ghost cells
    global_to_local,  \* global_to_local[r]: global index -> local or ghost index
    neighbors,        \* neighbors[r]: neighbor ranks in order of discovery
    borderCells,      \* borderCells[r]: local indices of the border cells
    borderCellsNeighbors, \* borderCellsNeighbors[r][i]: owners next to border cell i
    exchangeVector,   \* exchangeVector[r]: the ghost exchange descriptors
    pc,               \* pc[r]: "idle", or "callback" inside a repartition call
    ncallbacks,       \* ncallbacks[r]: callback invocations of the current/last call
    retval,           \* retval[r]: "none" or the return value of the last call
    nmoved,           \* number of cells that changed owner in the current/last round
    oob,              \* reinit indexed tmp_ex_descs with an UNKNOWN owner
    thrown,           \* exception of the last command() since the last repartition
    m_num_local_cells, \* P4estGrid: m_num_local_cells[r]
    nquads_per_proc,  \* P4estGrid: m_repartstate.nquads_per_proc after allreduce()
    chan,             \* chan[<<s, d>>]: messages rank s has sent to d, not yet received
    received,         \* received[r][i]: what the last wait_all matched for neighbors[r][i]
    round,            \* round[r]: the repartition calls rank r has begun
    loadchan,         \* loadchan[<<s, d>>]: loads s has contributed to d's allgather
    box_l,            \* P4estGrid: box_l, the box size
    max_range,        \* P4estGrid: max_range, the minimum cell size
    m_cell_size,      \* P4estGrid: m_cell_size
    metric_weight,    \* the weight the metric of the caller gives every cell
    octs,             \* test_tetra: the octagons built from the corners
    point,            \* test_tetra: the point p handed to contains
    inside,           \* test_tetra: the octagons k with octs[k].contains(p)
    gridpoint,        \* GridBasedGrid: gridpoint[r]
    gridpoints,       \* GridBasedGrid: gridpoints[r][q], the gathered grid points
    old_gridpoint,    \* GridBasedGrid: the copies sub_repartition keeps for a rollback
    my_dom,           \* GridBasedGrid: my_dom[r]
    neighbor_doms,    \* GridBasedGrid: neighbor_doms[r][q] for q in const_neighborhood[r]
    const_neighborhood,  \* GridBasedGrid: const_neighborhood[r]
    m_kdtree,         \* KDTreeGrid: m_kdtree[r][q], the sub-box of rank q in the tree of r
    repart_tree,      \* KDTreeGrid: the tree repartition builds from the gathered weights
    m_local_subdomain,     \* KDTreeGrid: m_local_subdomain[r]
    m_neighbor_processes,  \* KDTreeGrid: m_neighbor_processes[r]
    m_boundary_info,  \* KDTreeGrid: m_boundary_info[r][i] for m_neighbor_processes[r][i]
    cellweights,      \* Diffusion::repartition: cellweights of rank r, live at the callback
    sendVolume,       \* Diffusion::repartition: send_volume of rank r (line 232)
    sendLists,        \* Diffusion::repartition: toSend of rank r (line 254)
    neighcomm,        \* Diffusion: neighcomm of rank r, MPI_COMM_NULL or its edges
    live_comms        \* the graph communicators rank r has created and not freed

\* The variables of the P4estGrid; a Diffusion grid leaves them alone.
sfcvars == << m_num_local_cells, nquads_per_proc >>

\* The point-to-point messages of the two communication steps.
msgvars == << chan, received, round, loadchan >>

\* The box and the cell size of a P4estGrid.
boxvars == << box_l, max_range, m_cell_size >>

\* The variables no operation of a Diffusion grid touches.
\* The octagons of the geometry tests and the point they are asked about.
tetravars == << octs, point, inside >>

\* The variables of a GridBasedGrid beyond those of GloMethod.
gridvars == << gridpoint, gridpoints, old_gridpoint, my_dom, neighbor_doms,
               const_neighborhood >>

\* The variables of a KDTreeGrid.
kdvars == << m_kdtree, repart_tree, m_local_subdomain, m_neighbor_processes,
             m_boundary_info >>

\* The locals of Diffusion::repartition that are alive at the callback.
localvars == << cellweights, sendVolume, sendLists >>

\* The variables of the other grids and of the geometry tests.
otherext == << boxvars, metric_weight, tetravars, gridvars, kdvars >>

\* The graph communicator of a Diffusion grid.
commvars == << neighcomm, live_comms >>

extvars == << otherext, localvars, commvars >>

vars == << comm_size, gbox, partition, localCells, ghostCells, cells,
           global_to_local, neighbors, borderCells, borderCellsNeighbors,
           exchangeVector, pc, ncallbacks, retval, nmoved, oob, thrown,
           m_num_local_cells, nquads_per_proc, chan, received, round, loadchan,
           box_l, max_range, m_cell_size, metric_weight, octs, point, inside,
           gridpoint, gridpoints, old_gridpoint, my_dom, neighbor_doms,
           const_neighborhood, m_kdtree, repart_tree, m_local_subdomain,
           m_neighbor_processes, m_boundary_info, cellweights, sendVolume,
           sendLists, neighcomm, live_comms >>

Ranks == 0..(comm_size - 1)
Cells == 0..(ncells(gbox) - 1)

\* gbox.full_shell_neigh(c): 27 cells, the cell itself first.
full_shell_neigh(c) == NeighTable[gbox][c]

\* gbox.full_shell_neigh_without_center(c): the 26 cells after the first.
full_shell_neigh_without_center(c) == NeighTable26[gbox][c]

(***************************************************************************)
(* Helpers.                                                                *)
(***************************************************************************)
\* F applied to the value of v (v is evaluated once).
Bind(v, F(_)) == CHOOSE y \in {F(x) : x \in {v}} : TRUE

Range(s) == {s[i] : i \in 1..Len(s)}

\* The elements of the set of integers S in ascending order (std::sort).
SortSet(S) ==
    [k \in 1..Cardinality(S) |-> CHOOSE x \in S : Cardinality({y \in S : y < x}) = k - 1]

\* The sequence s without the repetitions of an element after its first occurrence.
Unique(s) ==
    Bind({i \in 1..Len(s) : \A j \in 1..(i - 1) : s[j] # s[i]},
         LAMBDA first : Bind(SortSet(first),
         LAMBDA idx : [k \in 1..Len(idx) |-> s[idx[k]]]))

\* The concatenation of the sequences ss[1], ss[2], ...
RECURSIVE Concat(_, _)
Concat(ss, i) == IF i > Len(ss) THEN << >> ELSE ss[i] \o Concat(ss, i + 1)

IndexOf(s, val) == CHOOSE i \in 1..Len(s) : s[i] = val

\* Unique(full_shell_neigh_without_center(c)) tabulated for every grid.
UniqueNeighTable ==
    Eval([g \in Grids |->
        Eval([i \in 0..(ncells(g) - 1) |-> << >> \o Unique(NeighTable26[g][i])])])

(***************************************************************************)
(* Diffusion::reinit                                                       *)
(***************************************************************************)
\* Lines 527-547: the partition vector after the first loop of reinit.
ReinitPartition(r, p, init) ==
    Eval([i \in DOMAIN p |->
        IF p[i] # r /\ ~init /\ p[i] # UNKNOWN
           /\ \A n \in ShellTable[gbox][i] : p[n] # r
        THEN UNKNOWN ELSE p[i]])

\* Lines 556-560: the neighbor cells of global cell c that rank r does not own,
\* each once, in the order the loop over the neighborhood meets them.
ForeignNeighbors(r, p, c) ==
    SelectSeq(UniqueNeighTable[gbox][c], LAMBDA n : p[n] # r)

\* std::sort of a vector that may hold a value several times.
StdSort(s) ==
    [k \in 1..Len(s) |->
        CHOOSE x \in Range(s) :
            /\ Cardinality({i \in 1..Len(s) : s[i] < x}) < k
            /\ k <= Cardinality({i \in 1..Len(s) : s[i] <= x})]

\* MakeDesc with the lists sorted by local index, after the conversion.
MakeDesc_SortLocal(o, recvs, sends, g2l) ==
    [dest |-> o,
     recv |-> SortSet({g2l[c] : c \in Range(recvs)}),
     send |-> SortSet({g2l[c] : c \in Range(sends)})]

\* MakeDesc without the conversion to local indices.
MakeDesc_Global(o, recvs, sends, g2l) ==
    [dest |-> o, recv |-> SortSet(Range(recvs)), send |-> SortSet(Range(sends))]

\* MakeDesc with push_back in place of push_back_unique for the send list.
MakeDesc_SendPushBack(o, recvs, sends, g2l) ==
    [dest |-> o,
     recv |-> Bind(SortSet(Range(recvs)), LAMBDA s : [j \in 1..Len(s) |-> g2l[s[j]]]),
     send |-> Bind(StdSort(sends), LAMBDA s : [j \in 1..Len(s) |-> g2l[s[j]]])]

\* Lines 586-587 and 591-611: the exchange descriptor for rank o.  recvs and
\* sends are the global indices handed to push_back_unique, in order; the
\* lists are sorted by global index and then converted to local indices.
MakeDesc(o, recvs, sends, g2l) ==
    [dest |-> o,
     recv |-> Bind(SortSet(Range(recvs)), LAMBDA s : [j \in 1..Len(s) |-> g2l[s[j]]]),
     send |-> Bind(SortSet(Range(sends)), LAMBDA s : [j \in 1..Len(s) |-> g2l[s[j]]])]

\* Lines 556-587: what the loop pushes to the descriptor of rank o: the ghost
\* cells of o, and the local cell once for each of them.
RecvPushes(o, q, foreign) == SelectSeq(Concat(foreign, 1), LAMBDA n : q[n] = o)
SendPushes(o, q, locals, foreign) ==
    Concat(Eval([i \in 1..Len(locals) |->
               [k \in 1..Len(SelectSeq(foreign[i], LAMBDA n : q[n] = o)) |-> locals[i]]]), 1)

\* GhostList without the test whether the cell is known already.
GhostList_Repeated(foreign) == Concat(foreign, 1)

\* Lines 567-578: the ghost cells, each added once, when first met.
GhostList(foreign) == Unique(Concat(foreign, 1))

\* DescDests with a loop that stops one rank early.
DescDests_SkipLast(neighs) == SortSet(Range(neighs) \ {UNKNOWN, comm_size - 1})

\* Lines 594-595: the ranks that get an exchange descriptor, in ascending order.
DescDests(neighs) == SortSet(Range(neighs) \ {UNKNOWN})

\* Lines 555-611 on rank r, given the partition q and the local cells.
ReinitLocal(r, q, locals, foreign) ==
    Bind(GhostList(foreign), LAMBDA ghosts :
    Bind(locals \o ghosts, LAMBDA allc :
    Bind([c \in Range(allc) |-> IndexOf(allc, c) - 1], LAMBDA g2l :
    Bind(Unique([i \in 1..Len(ghosts) |-> q[ghosts[i]]]), LAMBDA neighs :
    Bind(SelectSeq([i \in 1..Len(locals) |-> i - 1],
                   LAMBDA i : Len(foreign[i + 1]) > 0), LAMBDA border :
    Bind(DescDests(neighs), LAMBDA dests :
        [partition |-> q,
         localCells |-> Len(locals),
         ghostCells |-> Len(ghosts),
         cells |-> allc,
         global_to_local |-> g2l,
         neighbors |-> neighs,
         borderCells |-> border,
         borderCellsNeighbors |->
            [i \in Range(border) |->
                Unique([j \in 1..Len(foreign[i + 1]) |-> q[foreign[i + 1][j]]])],
         exchangeVector |->
            [j \in 1..Len(dests) |->
                MakeDesc(dests[j], RecvPushes(dests[j], q, foreign),
                         SendPushes(dests[j], q, locals, foreign), g2l)],
         oob |-> UNKNOWN \in Range(neighs)]))))))

\* Lines 515-611: the structures reinit builds on rank r from partition p.
Reinit(r, p, init) ==
    Bind(ReinitPartition(r, p, init), LAMBDA q :
    Bind(SortSet({i \in DOMAIN p : p[i] = r}), LAMBDA locals :
    Bind(<< >> \o [i \in 1..Len(locals) |-> ForeignNeighbors(r, q, locals[i])],
         LAMBDA foreign : ReinitLocal(r, q, locals, foreign))))

\* The null handle neighcomm has before the first reinit (line 399).
MPI_COMM_NULL == [null |-> TRUE, sources |-> << >>, destinations |-> << >>]

\* reinit that creates the new communicator without freeing the old one.
CommFree_Leak(nc, live) == live

\* Lines 622-623: MPI_Comm_free of the previous communicator, if there is one;
\* live is the number of communicators of the rank that are alive.
CommFree(nc, live) == IF nc # MPI_COMM_NULL THEN live - 1 ELSE live

\* Lines 625-629: MPI_Dist_graph_create_adjacent with "neighbors" as sources
\* and as destinations.
DistGraphCreate(neighs) ==
    [null |-> FALSE, sources |-> neighs, destinations |-> neighs]

(***************************************************************************)
(* Diffusion::Diffusion                                                    *)
(***************************************************************************)
\* A partition that deals the cells out to the ranks in turn.
InitialPartition_RoundRobin(size, g) == [i \in 0..(ncells(g) - 1) |-> i % size]

\* Lines 401-406: the initial linear partition.
InitialPartition(size, g) == [i \in 0..(ncells(g) - 1) |-> (i * size) \div ncells(g)]

\* Lines 396-410: the constructor, on every rank: linear partition, reinit(true).
Init ==
    \E c \in Configs :
        /\ comm_size = c.size
        /\ gbox = c.grid
        /\ LET R == [r \in Ranks |-> Reinit(r, InitialPartition(comm_size, gbox), TRUE)]
           IN  /\ partition = [r \in Ranks |-> R[r].partition]
               /\ localCells = [r \in Ranks |-> R[r].localCells]
               /\ ghostCells = [r \in Ranks |-> R[r].ghostCells]
               /\ cells = [r \in Ranks |-> R[r].cells]
               /\ global_to_local = [r \in Ranks |-> R[r].global_to_local]
               /\ neighbors = [r \in Ranks |-> R[r].neighbors]
               /\ borderCells = [r \in Ranks |-> R[r].borderCells]
               /\ borderCellsNeighbors = [r \in Ranks |-> R[r].borderCellsNeighbors]
               /\ exchangeVector = [r \in Ranks |-> R[r].exchangeVector]
               /\ oob = \E r \in Ranks : R[r].oob
        /\ pc = [r \in Ranks |-> "idle"]
        /\ ncallbacks = [r \in Ranks |-> 0]
        /\ retval = [r \in Ranks |-> "none"]
        /\ nmoved = 0
        /\ thrown = "none"
        /\ m_num_local_cells = << >>
        /\ nquads_per_proc = << >>
        /\ chan = [p \in Ranks \X Ranks |-> << >>]
        /\ received = [r \in Ranks |-> << >>]
        /\ round = [r \in Ranks |-> 0]
        /\ loadchan = [p \in Ranks \X Ranks |-> << >>]
        /\ box_l = << >>
        /\ max_range = << >>
        /\ metric_weight = << >>
        /\ octs = << >>
        /\ point = << >>
        /\ inside = {}
        /\ gridpoint = << >>
        /\ gridpoints = << >>
        /\ old_gridpoint = << >>
        /\ my_dom = << >>
        /\ neighbor_doms = << >>
        /\ const_neighborhood = << >>
        /\ m_kdtree = << >>
        /\ repart_tree = << >>
        /\ m_local_subdomain = << >>
        /\ m_neighbor_processes = << >>
        /\ m_boundary_info = << >>
        /\ cellweights = [r \in Ranks |-> << >>]
        /\ sendVolume = [r \in Ranks |-> << >>]
        /\ sendLists = [r \in Ranks |-> << >>]
        /\ neighcomm = [r \in Ranks |-> DistGraphCreate(neighbors[r])]
        /\ live_comms = [r \in Ranks |-> CommFree(MPI_COMM_NULL, 0) + 1]
        /\ m_cell_size = << >>

(***************************************************************************)
(* Diffusion::repartition                                                  *)
(***************************************************************************)
RECURSIVE Sum(_, _)
Sum(s, i) == IF i > Len(s) THEN 0 ELSE s[i] + Sum(s, i + 1)

Max(a, b) == IF a >= b THEN a ELSE b

\* The metric of rank r: one weight per local cell, in local-cell order.
Metric(r, w) == Eval([i \in 1..localCells[r] |-> w[cells[r][i]]])

\* clear_unknown_cell_ownership that erases every entry of another rank.
clear_unknown_cell_ownership_Foreign(r, p) ==
    Eval([i \in DOMAIN p |-> IF p[i] # r THEN UNKNOWN ELSE p[i]])

\* Lines 180-192.
clear_unknown_cell_ownership(r, p) ==
    Eval([i \in DOMAIN p |->
        IF \A n \in ShellTable[gbox][i] : p[n] # r THEN UNKNOWN ELSE p[i]])

\* compute_send_volume that gives every neighbor the same share of the
\* overload.
compute_send_volume_Even(neighloads, load) ==
    LET nneigh == Len(neighloads)
        total  == load + Sum(neighloads, 1)
    IN  IF (nneigh + 1) * load < total \/ nneigh = 0
        THEN [nan |-> FALSE, num |-> [i \in 1..nneigh |-> 0], den |-> 1]
        ELSE [nan |-> FALSE,
              num |-> [i \in 1..nneigh |-> (nneigh + 1) * load - total],
              den |-> (nneigh + 1) * nneigh]

\* compute_send_volume that offers every neighbor the whole load when the
\* total deficiency is zero.
compute_send_volume_NoNaN(neighloads, load) ==
    LET nneigh == Len(neighloads)
        total  == load + Sum(neighloads, 1)
        defic  == [i \in 1..nneigh |-> Max(total - (nneigh + 1) * neighloads[i], 0)]
        overload == (nneigh + 1) * load - total
    IN  IF (nneigh + 1) * load < total
        THEN [nan |-> FALSE, num |-> [i \in 1..nneigh |-> 0], den |-> 1]
        ELSE IF Sum(defic, 1) = 0
        THEN [nan |-> FALSE, num |-> [i \in 1..nneigh |-> load], den |-> 1]
        ELSE [nan |-> FALSE,
              num |-> [i \in 1..nneigh |-> overload * defic[i]],
              den |-> (nneigh + 1) * Sum(defic, 1)]

\* Lines 73-107.  The result stands for the volumes num[i] / den; nan says that
\* every volume is the NaN of 0.0 / 0.0.
compute_send_volume(neighloads, load) ==
    LET nneigh == Len(neighloads)
        total  == load + Sum(neighloads, 1)
        zeros  == [i \in 1..nneigh |-> 0]
        \* deficiency[i] and overload, both times (nneigh + 1)
        defic  == [i \in 1..nneigh |-> Max(total - (nneigh + 1) * neighloads[i], 0)]
        total_deficiency == Sum(defic, 1)
        overload == (nneigh + 1) * load - total
    IN  IF (nneigh + 1) * load < total
        THEN [nan |-> FALSE, num |-> zeros, den |-> 1]
        ELSE IF total_deficiency = 0
        THEN [nan |-> nneigh > 0, num |-> zeros, den |-> 1]
        ELSE [nan |-> FALSE,
              num |-> [i \in 1..nneigh |-> overload * defic[i]],
              den |-> (nneigh + 1) * total_deficiency]

\* Lines 240-241: some volume is > 0.0 (false for NaN).
AnyPositive(vol) == ~vol.nan /\ \E i \in 1..Len(vol.num) : vol.num[i] > 0

\* Lines 426-436: the neighbors of border cell b (a local index) on this rank
\* that are border cells themselves, counted as often as the shell names them.
nadditional_comm(r, p, b) ==
    Cardinality({k \in 2..27 :
        LET neighCell == full_shell_neigh(cells[r][b + 1])[k]
        IN  /\ p[neighCell] = r
            /\ \E j \in 1..Len(borderCells[r]) :
                   borderCells[r][j] = global_to_local[r][neighCell]})

\* Plist that also enters the border cells of weight zero.
Plist_AnyWeight(r, p, weights) ==
    {<< 27 - nadditional_comm(r, p, b), weights[b + 1], b >> : b \in Range(borderCells[r])}

\* Lines 421-443: the entries of plist.
Plist(r, p, weights) ==
    {<< 27 - nadditional_comm(r, p, b), weights[b + 1], b >> :
        b \in {c \in Range(borderCells[r]) : weights[c + 1] > 0}}

\* operator< of std::tuple<int, double, int>.
TupleLess(x, y) ==
    \/ x[1] < y[1]
    \/ x[1] = y[1] /\ x[2] < y[2]
    \/ x[1] = y[1] /\ x[2] = y[2] /\ x[3] < y[3]

\* HeapOrder without the heap: the entries in the order of plist.
HeapOrder_Insertion(plist) ==
    Eval([k \in 1..Cardinality(plist) |->
        CHOOSE x \in plist : Cardinality({y \in plist : y[3] < x[3]}) = k - 1])

\* Lines 450-454: the order in which the max-heap hands out its elements.
HeapOrder(plist) ==
    Eval([k \in 1..Cardinality(plist) |->
        CHOOSE x \in plist : Cardinality({y \in plist : TupleLess(x, y)}) = k - 1])

\* TakerOf without the comparison of the weight with the remaining volume.
TakerOf_NoLimit(r, cidx, wt, num, den) ==
    IndexOf(neighbors[r], borderCellsNeighbors[r][cidx][1])

\* Lines 456-468: the index in "neighbors" of the rank that takes cell cidx of
\* weight wt, 0 if there is none.
TakerOf(r, cidx, wt, num, den) ==
    LET cand == borderCellsNeighbors[r][cidx]
        fits == {j \in 1..Len(cand) : wt * den <= num[IndexOf(neighbors[r], cand[j])]}
    IN  IF fits = {} THEN 0
        ELSE IndexOf(neighbors[r], cand[CHOOSE j \in fits : \A l \in fits : j <= l])

\* Lines 451-469: the loop over the heap from its i-th element on.
RECURSIVE SendLoop(_, _, _, _, _, _, _)
SendLoop(r, order, i, weights, num, den, to_send) ==
    IF i > Len(order) THEN to_send
    ELSE LET cidx == order[i][3]
             wt   == weights[cidx + 1]
             t    == TakerOf(r, cidx, wt, num, den)
         IN  IF t = 0
             THEN SendLoop(r, order, i + 1, weights, num, den, to_send)
             ELSE SendLoop(r, order, i + 1, weights,
                           [num EXCEPT ![t] = @ - wt * den], den,
                           [to_send EXCEPT ![t] = Append(@, cells[r][cidx + 1])])

\* Lines 416-472.
compute_send_list(r, p, send_loads, weights) ==
    SendLoop(r, HeapOrder(Plist(r, p, weights)), 1, weights,
             send_loads.num, send_loads.den,
             [i \in 1..Len(send_loads.num) |-> << >>])

\* Lines 75-79: MPI_Neighbor_allgather on neighcomm: the loads of the sources
\* of the communicator of rank r, in their order.
NeighborAllgather(r, loads) ==
    [i \in 1..Len(neighcomm[r].sources) |-> loads[neighcomm[r].sources[i]]]

\* Lines 232-261: toSend of rank r with partition p (after the clearing).
ToSend(r, p, loads, weights) ==
    LET send_volume == compute_send_volume(NeighborAllgather(r, loads), loads[r])
    IN  IF AnyPositive(send_volume)
        THEN compute_send_list(r, p, send_volume, weights)
        ELSE [i \in 1..Len(neighbors[r]) |-> << >>]

\* p after the assignments as[1], as[2], ... of <<cell, rank>>, made in order.
ApplyAssignments(p, as) ==
    Eval([c \in DOMAIN p |->
        LET hits == {i \in 1..Len(as) : as[i][1] = c}
        IN  IF hits = {} THEN p[c]
            ELSE as[CHOOSE i \in hits : \A j \in hits : j <= i][2]])

\* Lines 256-260 and 315-324: fill_index_range for every inner list of a
\* toSend vector whose i-th list goes to rank targets[i].
ToSendAssignments(toSend, targets) ==
    Concat(Eval([i \in 1..Len(toSend) |->
               [j \in 1..Len(toSend[i]) |-> << toSend[i][j], targets[i] >>]]), 1)

\* sendNeighbourhood that reports the new owner of the cell for each of its
\* neighbors.
sendNeighbourhood_Own(p, list) ==
    Eval([j \in 1..Len(list) |->
        [basecell |-> list[j], neighranks |-> Eval([k \in 1..26 |-> p[list[j]]])]])

\* Lines 474-492: the NeighSend records for one inner list of toSend.
sendNeighbourhood(p, list) ==
    Eval([j \in 1..Len(list) |->
        [basecell |-> list[j],
         neighranks |->
            Eval([k \in 1..26 |-> p[full_shell_neigh_without_center(list[j])[k]]])]])

\* NeighbourhoodAssignments that pairs the ranks with the full shell, the
\* center included, so that every rank goes to the cell one position early.
NeighbourhoodAssignments_Shifted(neighs) ==
    Concat(Eval([j \in 1..Len(neighs) |->
               [k \in 1..26 |->
                   << full_shell_neigh(neighs[j].basecell)[k],
                      neighs[j].neighranks[k] >>]]), 1)

\* Lines 498-510: the assignments updateReceivedNeighbourhood makes for one
\* received vector of NeighSend records.
NeighbourhoodAssignments(neighs) ==
    Concat(Eval([j \in 1..Len(neighs) |->
               [k \in 1..26 |->
                   << full_shell_neigh_without_center(neighs[j].basecell)[k],
                      neighs[j].neighranks[k] >>]]), 1)

\* neighbor_ranks() is symmetric: every posted receive has its send.
NeighborsSymmetric ==
    \A r, s \in Ranks : (s \in Range(neighbors[r])) <=> (r \in Range(neighbors[s]))

\* Lines 197-260 on every rank: the weights, the loads and the send lists, and
\* the partition vectors after the own cells to send have got their new owner.
RoundSend(w) ==
    Bind(Eval([r \in Ranks |-> Metric(r, w)]), LAMBDA weights :
    Bind(Eval([r \in Ranks |-> Sum(weights[r], 1)]), LAMBDA loads :
    Bind(Eval([r \in Ranks |-> clear_unknown_cell_ownership(r, partition[r])]), LAMBDA p1 :
    Bind(Eval([r \in Ranks |-> ToSend(r, p1[r], loads, weights[r])]), LAMBDA toSend :
        [toSend |-> toSend,
         partition |->
            Eval([r \in Ranks |->
                ApplyAssignments(p1[r], ToSendAssignments(toSend[r], neighbors[r]))])]))))

\* Lines 270-326 on every rank: the first communication step.  Rank r receives
\* the whole toSend of each of its neighbors, in the order of "neighbors".
RoundStep1(toSend, p2) ==
    Eval([r \in Ranks |->
        ApplyAssignments(p2[r],
            Concat(Eval([i \in 1..Len(neighbors[r]) |->
                       ToSendAssignments(toSend[neighbors[r][i]],
                                         neighbors[neighbors[r][i]])]), 1))])

\* RoundStep2 without the exchange of the neighborhoods.
RoundStep2_Skip(toSend, p3) == p3

\* Lines 351-372 on every rank: the second communication step.  Rank r receives
\* from each neighbor the neighborhoods of the cells that neighbor sent to r.
RoundStep2(toSend, p3) ==
    Bind(Eval([r \in Ranks |->
             Eval([i \in 1..Len(neighbors[r]) |-> sendNeighbourhood(p3[r], toSend[r][i])])]),
         LAMBDA sendVectors :
    Eval([r \in Ranks |->
        ApplyAssignments(p3[r],
            Concat(Eval([i \in 1..Len(neighbors[r]) |->
                       NeighbourhoodAssignments(
                           sendVectors[neighbors[r][i]]
                                      [IndexOf(neighbors[neighbors[r][i]], r)])]), 1))]))

\* Lines 194-372 on every rank: toSend and the partition vectors at the call of
\* exchange_start_callback.
Round(w) ==
    Bind(RoundSend(w), LAMBDA s :
    Bind(RoundStep1(s.toSend, s.partition), LAMBDA p3 :
        [toSend |-> s.toSend, partition |-> RoundStep2(s.toSend, p3)]))

\* The number of cells in the send lists of all ranks.
NumSent(toSend) ==
    Sum([n \in 1..comm_size |->
            Sum([i \in 1..Len(toSend[n - 1]) |-> Len(toSend[n - 1][i])], 1)], 1)

\* Repartition with reinit() called before exchange_start_callback.
Repartition_ReinitFirst(w) ==
    /\ \A r \in Ranks : pc[r] = "idle"
    /\ ~oob
    /\ NeighborsSymmetric
    /\ \E res \in {Round(w)} :
           \E R \in {Eval([r \in Ranks |-> Reinit(r, res.partition[r], FALSE)])} :
               /\ partition' = [r \in Ranks |-> R[r].partition]
               /\ localCells' = [r \in Ranks |-> R[r].localCells]
               /\ ghostCells' = [r \in Ranks |-> R[r].ghostCells]
               /\ cells' = [r \in Ranks |-> R[r].cells]
               /\ global_to_local' = [r \in Ranks |-> R[r].global_to_local]
               /\ neighbors' = [r \in Ranks |-> R[r].neighbors]
               /\ borderCells' = [r \in Ranks |-> R[r].borderCells]
               /\ borderCellsNeighbors' = [r \in Ranks |-> R[r].borderCellsNeighbors]
               /\ exchangeVector' = [r \in Ranks |-> R[r].exchangeVector]
               /\ oob' = \E r \in Ranks : R[r].oob
               /\ nmoved' = NumSent(res.toSend)
               /\ neighcomm' = [r \in Ranks |-> DistGraphCreate(R[r].neighbors)]
               /\ live_comms' =
                      [r \in Ranks |-> CommFree(neighcomm[r], live_comms[r]) + 1]
    /\ pc' = [r \in Ranks |-> "callback"]
    /\ ncallbacks' = [r \in Ranks |-> 1]
    /\ retval' = [r \in Ranks |-> "none"]
    /\ thrown' = "none"
    /\ UNCHANGED << comm_size, gbox, otherext, localvars, sfcvars, msgvars >>

\* Lines 194-386 on every rank, up to and including the call of
\* exchange_start_callback.  w gives the weight of every cell.
Repartition(w) ==
    /\ \A r \in Ranks : pc[r] = "idle"
    /\ ~oob
    /\ NeighborsSymmetric
    /\ \E res \in {Round(w)} :
           /\ partition' = res.partition
           /\ nmoved' = NumSent(res.toSend)
    /\ pc' = [r \in Ranks |-> "callback"]
    /\ ncallbacks' = [r \in Ranks |-> 1]
    /\ retval' = [r \in Ranks |-> "none"]
    /\ thrown' = "none"
    /\ UNCHANGED << comm_size, gbox, extvars, localCells, ghostCells, cells, global_to_local,
                    neighbors, borderCells, borderCellsNeighbors, exchangeVector, oob,
                    sfcvars, msgvars >>

\* Lines 386-391 on rank r: the callback returns, reinit() rebuilds the local
\* structures and the call returns true; its locals are gone.
FinishRepartition(r) ==
    /\ pc[r] = "callback"
    /\ \E R \in {Reinit(r, partition[r], FALSE)} :
           /\ partition' = [partition EXCEPT ![r] = R.partition]
           /\ localCells' = [localCells EXCEPT ![r] = R.localCells]
           /\ ghostCells' = [ghostCells EXCEPT ![r] = R.ghostCells]
           /\ cells' = [cells EXCEPT ![r] = R.cells]
           /\ global_to_local' = [global_to_local EXCEPT ![r] = R.global_to_local]
           /\ neighbors' = [neighbors EXCEPT ![r] = R.neighbors]
           /\ borderCells' = [borderCells EXCEPT ![r] = R.borderCells]
           /\ borderCellsNeighbors' =
                  [borderCellsNeighbors EXCEPT ![r] = R.borderCellsNeighbors]
           /\ exchangeVector' = [exchangeVector EXCEPT ![r] = R.exchangeVector]
           /\ oob' = (oob \/ R.oob)
           /\ neighcomm' = [neighcomm EXCEPT ![r] = DistGraphCreate(R.neighbors)]
           /\ live_comms' =
                  [live_comms EXCEPT ![r] = CommFree(neighcomm[r], live_comms[r]) + 1]
    /\ pc' = [pc EXCEPT ![r] = "idle"]
    /\ retval' = [retval EXCEPT ![r] = "true"]
    /\ cellweights' = [cellweights EXCEPT ![r] = << >>]
    /\ sendVolume' = [sendVolume EXCEPT ![r] = << >>]
    /\ sendLists' = [sendLists EXCEPT ![r] = << >>]
    /\ UNCHANGED << comm_size, gbox, otherext, ncallbacks, nmoved, thrown, sfcvars,
                    msgvars >>

\* Lines 194-386 on every rank as in Repartition, with the locals of the call
\* that are alive at the callback: cellweights (line 197), send_volume (line
\* 232) and toSend (lines 238-261 and 343-345).
RepartitionLocals(w) ==
    /\ \A r \in Ranks : pc[r] = "idle"
    /\ ~oob
    /\ NeighborsSymmetric
    /\ \E res \in {Round(w)} :
           /\ partition' = res.partition
           /\ nmoved' = NumSent(res.toSend)
           /\ sendLists' = res.toSend
    /\ \E weights \in {Eval([r \in Ranks |-> Metric(r, w)])} :
           /\ cellweights' = weights
           /\ sendVolume' =
                  Bind(Eval([r \in Ranks |-> Sum(weights[r], 1)]), LAMBDA loads :
                      Eval([r \in Ranks |->
                          compute_send_volume(NeighborAllgather(r, loads), loads[r])]))
    /\ pc' = [r \in Ranks |-> "callback"]
    /\ ncallbacks' = [r \in Ranks |-> 1]
    /\ retval' = [r \in Ranks |-> "none"]
    /\ thrown' = "none"
    /\ UNCHANGED << comm_size, gbox, otherext, commvars, localCells, ghostCells, cells,
                    global_to_local, neighbors, borderCells, borderCellsNeighbors,
                    exchangeVector, oob, sfcvars, msgvars >>

\* The grids on which the locals of the rounds are followed, with a caller
\* whose cells weigh up to MaxWeight + 1.
InitRound ==
    /\ Init
    /\ << comm_size, gbox >> \in {<< 3, << 5, 1, 1 >> >>, << 2, << 2, 2, 1 >> >>,
                                  << 4, << 5, 1, 1 >> >>}

NextRound ==
    \/ \E w \in [Cells -> 0..(MaxWeight + 1)] : RepartitionLocals(w)
    \/ \E r \in Ranks : FinishRepartition(r)

SpecRound == InitRound /\ [][NextRound]_vars

\* The command strings a caller delivers.
Commands == {"", "graph", "set mu 0.5"}

\* command that throws a std::runtime_error in place of UnknwonCommandError.
command_RuntimeError(s) == "runtime_error"

\* pargrid.hpp lines 245-248: ParallelLCGrid::command, which Diffusion does
\* not override: the exception the call throws.
command(s) == "UnknwonCommandError"

\* Rank r delivers the command s between two repartition calls.
Command(r, s) ==
    /\ pc[r] = "idle"
    /\ thrown' = command(s)
    /\ UNCHANGED << comm_size, gbox, extvars, partition, localCells, ghostCells, cells,
                    global_to_local, neighbors, borderCells, borderCellsNeighbors,
                    exchangeVector, pc, ncallbacks, retval, nmoved, oob, sfcvars,
                    msgvars >>

Next ==
    \/ \E w \in [Cells -> 0..MaxWeight] : Repartition(w)
    \/ \E r \in Ranks : FinishRepartition(r)


Spec == Init /\ [][Next]_vars

\* The grid on 3 ranks with 5 cells and a caller with heavier cells: rounds in
\* which several ranks send cells at once.
InitHeavy == Init /\ comm_size = 3 /\ gbox = << 5, 1, 1 >>

NextHeavy ==
    \/ \E w \in [Cells -> 0..(MaxWeight + 1)] : Repartition(w)
    \/ \E r \in Ranks : FinishRepartition(r)

SpecHeavy == InitHeavy /\ [][NextHeavy]_vars

\* The grid with a caller that also delivers commands, on the smaller grids.
InitCommand == Init /\ ncells(gbox) <= 5

NextCommand ==
    \/ Next
    \/ \E r \in Ranks : \E s \in Commands : Command(r, s)

SpecCommand == InitCommand /\ [][NextCommand]_vars

(***************************************************************************)
(* The load exchange and the two communication steps of                    *)
(* Diffusion::repartition, message by message.  A message is [tag, step,   *)
(* round, src]: the tag it was sent with, the step whose data it carries   *)
(* (1: lists of reassigned cells, 2: neighbourhoods), the call of the      *)
(* sender it belongs to and the sender.  The load exchange is a collective *)
(* on neighcomm, matched apart from the messages on comm_cart.             *)
(***************************************************************************)
\* Line 285 and 291: the tag of isend and irecv in the first step.
TagCells == 2

\* Line 357 and 364: the tag of isend and irecv in the second step.
TagNeighbourhood == 2

\* Matching that takes the newest message with the tag.
MatchIndex_Newest(q, tag) ==
    IF \E i \in 1..Len(q) : q[i].tag = tag
    THEN CHOOSE i \in 1..Len(q) :
             q[i].tag = tag /\ \A j \in (i + 1)..Len(q) : q[j].tag # tag
    ELSE 0

\* Lines 291 and 364, irecv(neighbors[i], tag, ...): the message of the queue
\* q from one sender the receive is matched with, 0 if there is none yet.
\* Messages of one sender with one tag are matched in the order sent.
MatchIndex(q, tag) ==
    IF \E i \in 1..Len(q) : q[i].tag = tag
    THEN CHOOSE i \in 1..Len(q) :
             q[i].tag = tag /\ \A j \in 1..(i - 1) : q[j].tag # tag
    ELSE 0

RemoveAt(q, i) == [k \in 1..(Len(q) - 1) |-> IF k < i THEN q[k] ELSE q[k + 1]]

\* The rounds a rank runs in the message-level model.
MaxRounds == 2

\* isend that leaves out the first neighbor.
Isend_SkipFirst(ch, r, tag, step) ==
    [p \in DOMAIN ch |->
        IF p[1] = r /\ p[2] \in Range(Tail(neighbors[r]))
        THEN Append(ch[p], [tag |-> tag, step |-> step, round |-> round[r], src |-> r])
        ELSE ch[p]]

\* Lines 284-286 and 356-358: isend to every neighbor, of the data of the
\* step in the round the rank is in.
Isend(ch, r, tag, step) ==
    [p \in DOMAIN ch |->
        IF p[1] = r /\ p[2] \in Range(neighbors[r])
        THEN Append(ch[p], [tag |-> tag, step |-> step, round |-> round[r], src |-> r])
        ELSE ch[p]]

\* Lines 289-294 and 361-367: irecv from every neighbor and wait_all, which
\* returns when every receive has been matched.
CanReceive(r, tag) ==
    \A n \in Range(neighbors[r]) : MatchIndex(chan[<< n, r >>], tag) # 0

Matched(r, tag) ==
    [i \in 1..Len(neighbors[r]) |->
        LET q == chan[<< neighbors[r][i], r >>] IN q[MatchIndex(q, tag)]]

\* A receive that leaves the matched message in the queue.
Irecv_Peek(ch, r, tag) == ch

Irecv(ch, r, tag) ==
    [p \in DOMAIN ch |->
        IF p[2] = r /\ p[1] \in Range(neighbors[r])
        THEN RemoveAt(ch[p], MatchIndex(ch[p], tag))
        ELSE ch[p]]

\* Lines 194-233 and 85-88 on rank r: the call begins and enters
\* MPI_Neighbor_allgather on neighcomm, contributing its load to the
\* destinations of the communicator.
MsgGather(r) ==
    /\ pc[r] = "idle"
    /\ round[r] < MaxRounds
    /\ round' = [round EXCEPT ![r] = round[r] + 1]
    /\ loadchan' = [p \in DOMAIN loadchan |->
                       IF p[1] = r /\ p[2] \in Range(neighcomm[r].destinations)
                       THEN Append(loadchan[p], round[r] + 1)
                       ELSE loadchan[p]]
    /\ pc' = [pc EXCEPT ![r] = "gather"]
    /\ UNCHANGED << comm_size, gbox, extvars, partition, localCells, ghostCells, cells,
                    global_to_local, neighbors, borderCells, borderCellsNeighbors,
                    exchangeVector, ncallbacks, retval, nmoved, oob, thrown,
                    sfcvars, chan, received >>

\* Lines 88-292 on rank r: MPI_Neighbor_allgather returns with the load of
\* every source of neighcomm, and the first step's sends and receives are
\* posted.
MsgStep1(r) ==
    /\ pc[r] = "gather"
    /\ \A n \in Range(neighcomm[r].sources) : loadchan[<< n, r >>] # << >>
    /\ loadchan' = [p \in DOMAIN loadchan |->
                       IF p[2] = r /\ p[1] \in Range(neighcomm[r].sources)
                       THEN Tail(loadchan[p])
                       ELSE loadchan[p]]
    /\ chan' = Isend(chan, r, TagCells, 1)
    /\ pc' = [pc EXCEPT ![r] = "step1"]
    /\ UNCHANGED << comm_size, gbox, extvars, partition, localCells, ghostCells, cells,
                    global_to_local, neighbors, borderCells, borderCellsNeighbors,
                    exchangeVector, ncallbacks, retval, nmoved, oob, thrown,
                    sfcvars, received, round >>

\* Lines 294-365 on rank r: wait_all returns with the first step's messages,
\* the second step's sends and receives are posted.
MsgStep2(r) ==
    /\ pc[r] = "step1"
    /\ CanReceive(r, TagCells)
    /\ received' = [received EXCEPT ![r] = Matched(r, TagCells)]
    /\ chan' = Isend(Irecv(chan, r, TagCells), r, TagNeighbourhood, 2)
    /\ pc' = [pc EXCEPT ![r] = "step2"]
    /\ UNCHANGED << comm_size, gbox, extvars, partition, localCells, ghostCells, cells,
                    global_to_local, neighbors, borderCells, borderCellsNeighbors,
                    exchangeVector, ncallbacks, retval, nmoved, oob, thrown,
                    sfcvars, round, loadchan >>

\* Lines 367-372 on rank r: wait_all returns with the second step's
\* messages, and the call returns.
MsgDone(r) ==
    /\ pc[r] = "step2"
    /\ CanReceive(r, TagNeighbourhood)
    /\ received' = [received EXCEPT ![r] = Matched(r, TagNeighbourhood)]
    /\ chan' = Irecv(chan, r, TagNeighbourhood)
    /\ pc' = [pc EXCEPT ![r] = "idle"]
    /\ UNCHANGED << comm_size, gbox, extvars, partition, localCells, ghostCells, cells,
                    global_to_local, neighbors, borderCells, borderCellsNeighbors,
                    exchangeVector, ncallbacks, retval, nmoved, oob, thrown,
                    sfcvars, round, loadchan >>

NextMsg ==
    \/ \E r \in Ranks : MsgGather(r)
    \/ \E r \in Ranks : MsgStep1(r)
    \/ \E r \in Ranks : MsgStep2(r)
    \/ \E r \in Ranks : MsgDone(r)

SpecMsg == Init /\ [][NextMsg]_vars

\* The ranks of the largest communicator.
AllRanks == UNION {0..(c.size - 1) : c \in Configs}

\* The steps of rank r that wait for messages: MPI_Neighbor_allgather and
\* wait_all return once every message they wait for has been sent.
MsgWait(r) == r \in Ranks /\ (MsgStep1(r) \/ MsgStep2(r) \/ MsgDone(r))

\* repartition is collective: every rank makes the call of every round, the
\* messages sent are delivered and a wait that can return does return.
SpecMsgFair ==
    /\ Init
    /\ [][NextMsg]_vars
    /\ \A r \in AllRanks : WF_vars(r \in Ranks /\ MsgGather(r))
    /\ \A r \in AllRanks : WF_vars(MsgWait(r))

(***************************************************************************)
(* double: a binary floating-point number with a significand of Mantissa   *)
(* bits (the code: 53) and round to nearest, ties to even.  A value is the *)
(* fraction n / d with d a power of two.                                   *)
(***************************************************************************)
Mantissa == 10

RECURSIVE Pow2(_)
Pow2(k) == IF k = 0 THEN 1 ELSE 2 * Pow2(k - 1)

\* The fraction n / d in lowest terms, d a power of two.
RECURSIVE Rat(_, _)
Rat(n, d) == IF d > 1 /\ n % 2 = 0 THEN Rat(n \div 2, d \div 2) ELSE [n |-> n, d |-> d]

\* a / b = (a' / b') * 2^e with 2^(Mantissa-1) <= a' / b' < 2^Mantissa, for
\* a, b > 0.
RECURSIVE FloatNorm(_, _, _)
FloatNorm(a, b, e) ==
    IF a >= Pow2(Mantissa) * b THEN FloatNorm(a, 2 * b, e + 1)
    ELSE IF a < Pow2(Mantissa - 1) * b THEN FloatNorm(2 * a, b, e - 1)
    ELSE [a |-> a, b |-> b, e |-> e]

\* a / b rounded to the nearest integer, ties to even.
RoundEven(a, b) ==
    LET m == a \div b
        r == a % b
    IN  IF 2 * r > b \/ (2 * r = b /\ m % 2 = 1) THEN m + 1 ELSE m

\* The double nearest to a / b, for a >= 0 and b > 0.
Fl(a, b) ==
    IF a = 0 THEN Rat(0, 1)
    ELSE Bind(FloatNorm(a, b, 0), LAMBDA s :
             IF s.e >= 0
             THEN Rat(RoundEven(s.a, s.b) * Pow2(s.e), 1)
             ELSE Rat(RoundEven(s.a, s.b), Pow2(-s.e)))

\* x + y, x / y and x * y in double arithmetic; the comparisons are exact.
FAdd(x, y) ==
    IF x.d >= y.d
    THEN Fl(x.n + y.n * (x.d \div y.d), x.d)
    ELSE Fl(x.n * (y.d \div x.d) + y.n, y.d)

FDiv(x, y) ==
    IF y.d >= x.d
    THEN Fl(x.n * (y.d \div x.d), y.n)
    ELSE Fl(x.n, y.n * (x.d \div y.d))

FMul(x, y) == Fl(x.n * y.n, x.d * y.d)

FLess(x, y) == x.n * y.d < y.n * x.d

\* The conversion of the double x >= 0 to int.
FToInt(x) == x.n \div x.d

\* The conversion of the int k to double.
FFromInt(k) == Fl(k, 1)

\* std::accumulate: the values f[lo], ..., f[hi] added to acc one after the
\* other.
RECURSIVE FoldAdd(_, _, _, _)
FoldAdd(f, lo, hi, acc) ==
    IF lo > hi THEN acc
    ELSE IF lo = hi THEN FAdd(acc, f[lo])
    ELSE Bind(FoldAdd(f, lo, (lo + hi) \div 2, acc), LAMBDA mid :
             FoldAdd(f, (lo + hi) \div 2 + 1, hi, mid))

\* The value of the accumulator before each of f[lo], ..., f[hi] is added.
RECURSIVE ScanAdd(_, _, _, _)
ScanAdd(f, lo, hi, acc) ==
    IF lo > hi THEN << >>
    ELSE IF lo = hi THEN << acc >>
    ELSE Bind(ScanAdd(f, lo, (lo + hi) \div 2, acc), LAMBDA left :
         Bind(FAdd(left[Len(left)], f[(lo + hi) \div 2]), LAMBDA mid :
             left \o ScanAdd(f, (lo + hi) \div 2 + 1, hi, mid)))

(***************************************************************************)
(* P4estGrid (p4est.cpp): the cells along the space-filling curve are      *)
(* numbered 1..ncells(gbox); rank r owns the m_num_local_cells[r] cells    *)
(* after those of the ranks below it.                                      *)
(***************************************************************************)
\* p8est_new_ext (line 182): the uniform partition of the library.
UniformQuads(size, n) ==
    [r \in 0..(size - 1) |-> (n * (r + 1)) \div size - (n * r) \div size]

\* Lines 355-361 and 22-27: the constructor on every rank.
InitSFC ==
    \E c \in Configs :
        /\ comm_size = c.size
        /\ gbox = c.grid
        /\ m_num_local_cells = UniformQuads(c.size, ncells(c.grid))
        /\ nquads_per_proc = [r \in 0..(c.size - 1) |-> 0]
        /\ pc = [r \in 0..(c.size - 1) |-> "idle"]
        /\ ncallbacks = [r \in 0..(c.size - 1) |-> 0]
        /\ retval = [r \in 0..(c.size - 1) |-> "none"]
        /\ partition = << >>
        /\ localCells = << >>
        /\ ghostCells = << >>
        /\ cells = << >>
        /\ global_to_local = << >>
        /\ neighbors = << >>
        /\ borderCells = << >>
        /\ borderCellsNeighbors = << >>
        /\ exchangeVector = << >>
        /\ nmoved = 0
        /\ oob = FALSE
        /\ thrown = "none"
        /\ chan = << >>
        /\ received = << >>
        /\ round = << >>
        /\ loadchan = << >>
        /\ box_l = << >>
        /\ max_range = << >>
        /\ metric_weight = << >>
        /\ octs = << >>
        /\ point = << >>
        /\ inside = {}
        /\ gridpoint = << >>
        /\ gridpoints = << >>
        /\ old_gridpoint = << >>
        /\ my_dom = << >>
        /\ neighbor_doms = << >>
        /\ const_neighborhood = << >>
        /\ m_kdtree = << >>
        /\ repart_tree = << >>
        /\ m_local_subdomain = << >>
        /\ m_neighbor_processes = << >>
        /\ m_boundary_info = << >>
        /\ cellweights = << >>
        /\ sendVolume = << >>
        /\ sendLists = << >>
        /\ neighcomm = << >>
        /\ live_comms = << >>
        /\ m_cell_size = << >>

\* f[lo] + ... + f[hi]
RECURSIVE SumRange(_, _, _)
SumRange(f, lo, hi) ==
    IF lo > hi THEN 0
    ELSE IF lo = hi THEN f[lo]
    ELSE SumRange(f, lo, (lo + hi) \div 2) + SumRange(f, (lo + hi) \div 2 + 1, hi)

\* f[0] + ... + f[n - 1]
SumBelow(f, n) == SumRange(f, 0, n - 1)

\* The metrics of a call: one weight per cell along the curve.
CurveWeights == [1..ncells(gbox) -> {FFromInt(k) : k \in 0..MaxWeight}]

\* Line 486: weights = m() on rank r.
SfcWeights(r, w) ==
    [i \in 1..m_num_local_cells[r] |-> w[SumBelow(m_num_local_cells, r) + i]]

\* Lines 489-490: localsum.
SfcLocalSum(r, w) == FoldAdd(SfcWeights(r, w), 1, m_num_local_cells[r], Rat(0, 1))

\* The local sums of all ranks.
SfcLocalSums(w) == Eval([r \in Ranks |-> SfcLocalSum(r, w)])

\* Line 492: MPI_Allreduce of localsum, added in the order of the ranks.
SfcSum(w) == FoldAdd(SfcLocalSums(w), 0, comm_size - 1, Rat(0, 1))

\* Line 493: MPI_Exscan of localsum, 0 on rank 0.
SfcPrefix(r, w) == FoldAdd(SfcLocalSums(w), 0, r - 1, Rat(0, 1))

\* Line 494: target.
SfcTarget(w) == FDiv(SfcSum(w), FFromInt(comm_size))

\* Lines 499-500: min<int>(cellpref / target, size - 1), for target > 0.
SfcProc(cellpref, target) ==
    LET q == FToInt(FDiv(cellpref, target))
    IN  IF q < comm_size - 1 THEN q ELSE comm_size - 1

\* Lines 498-504: the values of cellpref when the accumulation reaches the
\* local cells of rank r.
SfcCellPref(r, w) ==
    ScanAdd(SfcWeights(r, w), 1, m_num_local_cells[r], SfcPrefix(r, w))

\* Lines 498-504: nquads_per_proc on rank r before the all-reduce.
SfcLocalQuads(r, w) ==
    Bind(SfcTarget(w), LAMBDA target :
    Bind(SfcCellPref(r, w), LAMBDA cellpref :
    Bind([i \in 1..m_num_local_cells[r] |-> SfcProc(cellpref[i], target)] @@ << >>,
         LAMBDA proc :
             Eval([p \in Ranks |->
                 Cardinality({i \in 1..m_num_local_cells[r] : proc[i] = p})]))))

\* Lines 41-45 and 506: RepartState::allreduce.
SfcAllreduce(w) ==
    Bind([r \in Ranks |-> SfcLocalQuads(r, w)] @@ << >>, LAMBDA local :
        Eval([p \in Ranks |-> SumBelow([r \in Ranks |-> local[r][p]], comm_size)]))

\* Lines 484-506 on every rank: reset, the sums, the accumulation and the
\* all-reduce.  With sum = 0 the quotient cellpref / target is 0.0 / 0.0,
\* and the conversion of a NaN to int is undefined: u is the rank the build
\* makes of it, u < 0 an index outside nquads_per_proc, which ends the
\* program.
SfcCount(w) ==
    /\ \A r \in Ranks : pc[r] = "idle"
    /\ IF SfcSum(w).n > 0
       THEN /\ nquads_per_proc' = SfcAllreduce(w)
            /\ pc' = [r \in Ranks |-> "check"]
       ELSE \E u \in (-1)..(comm_size - 1) :
                IF u < 0
                THEN /\ nquads_per_proc' = [p \in Ranks |-> 0]
                     /\ pc' = [r \in Ranks |-> "crashed"]
                ELSE /\ nquads_per_proc' =
                            [p \in Ranks |-> IF p = u THEN ncells(gbox) ELSE 0]
                     /\ pc' = [r \in Ranks |-> "check"]
    /\ ncallbacks' = [r \in Ranks |-> 0]
    /\ retval' = [r \in Ranks |-> "none"]
    /\ UNCHANGED << comm_size, gbox, extvars, partition, localCells, ghostCells, cells,
                    global_to_local, neighbors, borderCells, borderCellsNeighbors,
                    exchangeVector, nmoved, oob, thrown, m_num_local_cells,
                    msgvars >>

\* The test of line 512 that never finds a rank without cells.
ZeroQuads_Never(r) == FALSE

\* Line 512: no cells are assigned to rank r.
ZeroQuads(r) == nquads_per_proc[r] = 0

\* errexit (line 521) ends the program on all ranks.
errexit == [r \in Ranks |-> "aborted"]

\* Lines 512-527 on rank r: the test for an empty rank.
SfcCheck(r) ==
    /\ pc[r] = "check"
    /\ pc' = IF ZeroQuads(r) THEN errexit ELSE [pc EXCEPT ![r] = "partition"]
    /\ UNCHANGED << comm_size, gbox, extvars, partition, localCells, ghostCells, cells,
                    global_to_local, neighbors, borderCells, borderCellsNeighbors,
                    exchangeVector, ncallbacks, retval, nmoved, oob, thrown,
                    sfcvars, msgvars >>

\* Lines 529-530 and 207-208 on every rank: p8est_partition_given moves the
\* cells, a collective operation of the library; create_grid then calls
\* exchange_start_callback.
SfcPartition ==
    /\ \A r \in Ranks : pc[r] = "partition"
    /\ pc' = [r \in Ranks |-> "callback"]
    /\ ncallbacks' = [r \in Ranks |-> 1]
    /\ UNCHANGED << comm_size, gbox, extvars, partition, localCells, ghostCells, cells,
                    global_to_local, neighbors, borderCells, borderCellsNeighbors,
                    exchangeVector, retval, nmoved, oob, thrown, sfcvars,
                    msgvars >>

\* Lines 208-215 and 530-532 on rank r: the callback returns, create_grid
\* reads the new number of local cells and the call returns true.
SfcFinish(r) ==
    /\ pc[r] = "callback"
    /\ m_num_local_cells' = [m_num_local_cells EXCEPT ![r] = nquads_per_proc[r]]
    /\ pc' = [pc EXCEPT ![r] = "idle"]
    /\ retval' = [retval EXCEPT ![r] = "true"]
    /\ UNCHANGED << comm_size, gbox, extvars, partition, localCells, ghostCells, cells,
                    global_to_local, neighbors, borderCells, borderCellsNeighbors,
                    exchangeVector, ncallbacks, nmoved, oob, thrown,
                    nquads_per_proc, msgvars >>

NextSFC ==
    \/ \E w \in CurveWeights : SfcCount(w)
    \/ \E r \in Ranks : SfcCheck(r)
    \/ SfcPartition
    \/ \E r \in Ranks : SfcFinish(r)

SpecSFC == InitSFC /\ [][NextSFC]_vars

\* set_optimal_cellsize with the quotient rounded down to a whole number of
\* cells by exact division.
GridSize_Exact(L, h) ==
    [i \in 1..3 |->
        IF h.n > 0 THEN Max((L[i].n * h.d) \div (L[i].d * h.n), 1) ELSE 1]

\* set_optimal_cellsize with cells of length 1, whatever h.
GridSize_UnitCells(L, h) == [i \in 1..3 |-> Max(FToInt(L[i]), 1)]

\* Lines 137-149, set_optimal_cellsize: m_grid_size for the box L and the
\* minimum cell size h.  ROUND_ERROR_PREC is not defined in src/; its product
\* with box_l[0] lies below every positive h the model draws.
GridSize(L, h) ==
    [i \in 1..3 |-> IF h.n > 0 THEN Max(FToInt(FDiv(L[i], h)), 1) ELSE 1]

\* Lines 165-167: m_cell_size.
CellSize(L, g) == [i \in 1..3 |-> FDiv(L[i], FFromInt(g[i]))]

\* Lines 355-361, 161-215 on every rank: the constructor computes the grid
\* and the cell size, p8est_new_ext partitions the cells uniformly.
CreateGrid ==
    /\ \A r \in Ranks : pc[r] = "new"
    /\ \E g \in {GridSize(box_l, max_range)} :
           /\ gbox' = g
           /\ m_cell_size' = CellSize(box_l, g)
           /\ m_num_local_cells' = UniformQuads(comm_size, ncells(g))
    /\ pc' = [r \in Ranks |-> "idle"]
    /\ UNCHANGED << comm_size, partition, localCells, ghostCells, cells,
                    global_to_local, neighbors, borderCells, borderCellsNeighbors,
                    exchangeVector, ncallbacks, retval, nmoved, oob, thrown,
                    nquads_per_proc, msgvars, box_l, max_range, metric_weight,
                    tetravars, gridvars, kdvars, localvars, commvars >>

\* The box lengths and minimum cell sizes of the constructor calls.
BoxLengths == {Rat(1, 1), Rat(21, 2), Rat(15, 1), Rat(403, 32), Rat(16, 1)}

MinCellSizes == {Rat(0, 1), Rat(1, 2), Rat(2, 1), Rat(269, 128), Rat(717, 512)}

\* The arguments of the constructor: a communicator of size ranks, the box
\* L and the minimum cell size h.
InitBox(size, L, h, k) ==
    /\ comm_size = size
    /\ box_l = L
    /\ max_range = h
    /\ metric_weight = k
    /\ octs = << >>
    /\ point = << >>
    /\ inside = {}
    /\ gridpoint = << >>
    /\ gridpoints = << >>
    /\ old_gridpoint = << >>
    /\ my_dom = << >>
    /\ neighbor_doms = << >>
    /\ const_neighborhood = << >>
    /\ m_kdtree = << >>
    /\ repart_tree = << >>
    /\ m_local_subdomain = << >>
    /\ m_neighbor_processes = << >>
    /\ m_boundary_info = << >>
    /\ cellweights = << >>
    /\ sendVolume = << >>
    /\ sendLists = << >>
    /\ neighcomm = << >>
    /\ live_comms = << >>
    /\ gbox = << 0, 0, 0 >>
    /\ m_cell_size = << >>
    /\ m_num_local_cells = [r \in 0..(size - 1) |-> 0]
    /\ nquads_per_proc = [r \in 0..(size - 1) |-> 0]
    /\ pc = [r \in 0..(size - 1) |-> "new"]
    /\ ncallbacks = [r \in 0..(size - 1) |-> 0]
    /\ retval = [r \in 0..(size - 1) |-> "none"]
    /\ partition = << >>
    /\ localCells = << >>
    /\ ghostCells = << >>
    /\ cells = << >>
    /\ global_to_local = << >>
    /\ neighbors = << >>
    /\ borderCells = << >>
    /\ borderCellsNeighbors = << >>
    /\ exchangeVector = << >>
    /\ nmoved = 0
    /\ oob = FALSE
    /\ thrown = "none"
    /\ chan = << >>
    /\ received = << >>
    /\ round = << >>
    /\ loadchan = << >>

InitCells ==
    \E size \in {1, 4} : \E x \in BoxLengths : \E y \in BoxLengths :
        \E h \in MinCellSizes : InitBox(size, << x, y, y >>, h, Rat(1, 1))

NextCells == CreateGrid

SpecCells == InitCells /\ [][NextCells]_vars

(***************************************************************************)
(* P4estGrid, the lookup of positions (p4est.cpp lines 80-131, 186-205 and *)
(* 413-452).  The forest of the library is not part of the sources: as the *)
(* documentation states, the cells of the grid are enumerated along the    *)
(* 3D Morton curve of the cube of side 2^L around the grid, x running      *)
(* fastest, and rank r holds the m_num_local_cells[r] cells after those of *)
(* the ranks below it.                                                     *)
(***************************************************************************)
\* Line 91: the iterations of the loop of cell_morton_idx.
MortonBits == 21

\* The highest power of two of an int.
IntTop == Pow2(30)

\* Lines 95, 99 and 103, pos <<= 1 on an int: the sign bit after 31
\* shifts; after that no bit is left.
ShiftLeft(pos) ==
    IF pos = IntTop THEN (-IntTop) - IntTop
    ELSE IF pos <= 0 THEN 0
    ELSE 2 * pos

\* Lines 91-104: the loop of cell_morton_idx from iteration i on.
RECURSIVE MortonLoop(_, _, _, _, _, _)
MortonLoop(i, x, y, z, pos, idx) ==
    IF i = MortonBits THEN idx
    ELSE MortonLoop(i + 1, x \div 2, y \div 2, z \div 2,
                    ShiftLeft(ShiftLeft(ShiftLeft(pos))),
                    idx + (x % 2) * pos
                        + (y % 2) * ShiftLeft(pos)
                        + (z % 2) * ShiftLeft(ShiftLeft(pos)))

\* Lines 80-108, cell_morton_idx without BMI2 (with it, the same bits are
\* deposited by the masks).
cell_morton_idx(x, y, z) == MortonLoop(0, x, y, z, 1, 0)

\* Lines 49-55 and 153-154: count_trailing_zeros of ncells[0] | ncells[1] |
\* ncells[2].
RECURSIVE m_grid_level(_)
m_grid_level(g) ==
    IF g[1] % 2 = 0 /\ g[2] % 2 = 0 /\ g[3] % 2 = 0
    THEN 1 + m_grid_level([d \in 1..3 |-> g[d] \div 2])
    ELSE 0

\* Lines 202-204: the side of the cube around the grid.
RECURSIVE CubeSide(_, _)
CubeSide(tmp, g) ==
    IF tmp < g[1] \/ tmp < g[2] \/ tmp < g[3] THEN CubeSide(2 * tmp, g) ELSE tmp

\* The cells of the grid g in the cube with corner o and side s.
CellsIn(o, s, g) ==
    LET n(d) == IF o[d] >= g[d] THEN 0
                ELSE IF o[d] + s <= g[d] THEN s ELSE g[d] - o[d]
    IN  n(1) * n(2) * n(3)

\* The j-th octant of the cube with corner o and half side h.
Octant(o, h, j) ==
    << o[1] + (j % 2) * h, o[2] + ((j \div 2) % 2) * h, o[3] + (j \div 4) * h >>

\* The cell number k, from 0, of the grid g along the curve in the cube
\* with corner o and side s: the octants are passed in their order, j being
\* the first one not yet passed.
RECURSIVE CurveCell(_, _, _, _)
RECURSIVE CurveOctant(_, _, _, _, _)
CurveOctant(k, o, h, g, j) ==
    Bind(CellsIn(Octant(o, h, j), h, g), LAMBDA n :
        IF k < n \/ j = 7
        THEN CurveCell(k, Octant(o, h, j), h, g)
        ELSE CurveOctant(k - n, o, h, g, j + 1))

CurveCell(k, o, s, g) == IF s = 1 THEN o ELSE CurveOctant(k, o, s \div 2, g, 0)

\* The cell number k of the grid gbox along the curve.
QuadCell(k) == CurveCell(k, << 0, 0, 0 >>, CubeSide(1, gbox), gbox)

\* global_first_quadrant of the library: the cells of the ranks below r.
RECURSIVE FirstQuad(_)
FirstQuad(r) == IF r = 0 THEN 0 ELSE FirstQuad(r - 1) + m_num_local_cells[r - 1]

\* Lines 190-205: m_node_first_cell_idx, here with the indices 1 to
\* comm_size + 1.  global_first_position of a rank without cells is the
\* position of the next rank that has cells.
m_node_first_cell_idx ==
    Eval([i \in 1..(comm_size + 1) |->
        IF i <= comm_size
        THEN Bind(QuadCell(FirstQuad(i - 1)), LAMBDA c : cell_morton_idx(c[1], c[2], c[3]))
        ELSE LET tmp == CubeSide(Pow2(m_grid_level(gbox)), gbox) IN tmp * tmp * tmp])

\* Lines 129-131: the cell coordinates of a position inside the box, which
\* lines 119-127 leave as it is.
PosCell(pos) ==
    [d \in 1..3 |-> FToInt(FMul(pos[d], FDiv(Rat(1, 1), m_cell_size[d])))]

\* Lines 114-131, pos_morton_idx.
pos_morton_idx(pos) ==
    Bind(Eval(PosCell(pos)), LAMBDA c : cell_morton_idx(c[1], c[2], c[3]))

\* std::upper_bound over a[first + 1 .. first + count] with the comparison
\* of line 450: the elements before the first one above idx.
RECURSIVE UpperBound(_, _, _, _)
UpperBound(a, first, count, idx) ==
    IF count <= 0 THEN first
    ELSE LET step == count \div 2
         IN  IF ~(idx < a[first + step + 1])
             THEN UpperBound(a, first + step + 1, count - (step + 1), idx)
             ELSE UpperBound(a, first, step, idx)

\* Lines 441-452, P4estGrid::position_to_rank.
sfc_position_to_rank(pos) ==
    Bind(pos_morton_idx(pos), LAMBDA idx :
        Bind(m_node_first_cell_idx, LAMBDA a :
            UpperBound(a, 0, comm_size + 1, idx) - 1))

\* Lines 415-419: the Morton index of the local cell i of rank r in
\* m_p8est_shell.
ShellMorton(r, i) ==
    Bind(QuadCell(FirstQuad(r) + i), LAMBDA c : cell_morton_idx(c[1], c[2], c[3]))

\* std::lower_bound over the local cells of rank r with shellidxcomp.
RECURSIVE LowerBound(_, _, _, _)
LowerBound(r, first, count, needle) ==
    IF count <= 0 THEN first
    ELSE LET step == count \div 2
         IN  IF ShellMorton(r, first + step) < needle
             THEN LowerBound(r, first + step + 1, count - (step + 1), needle)
             ELSE LowerBound(r, first, step, needle)

\* Lines 413-438, P4estGrid::position_to_cell_index on rank r.
sfc_position_to_cell_index(r, pos) ==
    Bind(pos_morton_idx(pos), LAMBDA needle :
        Bind(LowerBound(r, 0, m_num_local_cells[r], needle), LAMBDA it :
            IF it # m_num_local_cells[r] /\ ShellMorton(r, it) = needle
            THEN [err |-> "none", val |-> it]
            ELSE [err |-> "domain_error", val |-> UNKNOWN]))

\* The constant weights of the metrics: 1 and the double nearest to 0.3.
ConstantWeights == {Rat(1, 1), Fl(3, 10)}

\* Boxes and minimum cell sizes of grids under a constant metric, among
\* them the box (16, 16, 16) with minimum cell size 2.
UniformBoxes ==
    {[L |-> << Rat(16, 1), Rat(16, 1), Rat(16, 1) >>, h |-> Rat(2, 1)],
     [L |-> << Rat(1, 1), Rat(1, 1), Rat(1, 1) >>, h |-> Rat(1, 2)],
     [L |-> << Rat(3, 1), Rat(1, 2), Rat(1, 2) >>, h |-> Rat(1, 2)],
     [L |-> << Rat(5, 1), Rat(1, 1), Rat(1, 1) >>, h |-> Rat(1, 2)],
     [L |-> << Rat(16, 1), Rat(1, 1), Rat(1, 1) >>, h |-> Rat(2, 1)]}

InitUniform ==
    \E size \in {2, 3, 4} : \E b \in UniformBoxes : \E k \in ConstantWeights :
        InitBox(size, b.L, b.h, k)

\* The metric of the caller: every cell has the weight metric_weight.
ConstantMetric == [i \in 1..ncells(gbox) |-> metric_weight]

NextUniform ==
    \/ CreateGrid
    \/ SfcCount(ConstantMetric)
    \/ \E r \in Ranks : SfcCheck(r)
    \/ SfcPartition
    \/ \E r \in Ranks : SfcFinish(r)

SpecUniform == InitUniform /\ [][NextUniform]_vars

\* Lines 388-392: the positions of the half shell and of the remaining
\* neighbours in m_p8est_shell[i].neighbor.
hs_idxs == << -1, 1, 16, 3, 17, 22, 8, 23, 12, 5, 13, 24, 9, 25 >>

fs_idxs == << 0, 2, 4, 6, 7, 10, 11, 14, 15, 18, 19, 20, 21 >>

\* Lines 385-406: P4estGrid::cell_neighbor_index on rank r.  err names the
\* exception thrown; with "none" the call returns cellidx itself (shell -1)
\* or the entry slot of m_p8est_shell[shell].neighbor.
P4est_cell_neighbor_index(r, cellidx, neigh) ==
    IF cellidx < 0 \/ cellidx > m_num_local_cells[r]
    THEN [err |-> "domain_error", shell |-> -1, slot |-> -1, val |-> -1]
    ELSE IF neigh = 0
    THEN [err |-> "none", shell |-> -1, slot |-> -1, val |-> cellidx]
    ELSE IF neigh > 0 /\ neigh < 14
    THEN [err |-> "none", shell |-> cellidx, slot |-> hs_idxs[neigh + 1], val |-> -1]
    ELSE IF neigh >= 14 /\ neigh < 27
    THEN [err |-> "none", shell |-> cellidx,
          slot |-> fs_idxs[neigh - Len(hs_idxs) + 1], val |-> -1]
    ELSE [err |-> "domain_error", shell |-> -1, slot |-> -1, val |-> -1]

(***************************************************************************)
(* util::tetra (tetra.hpp): the octagon of eight corner vertices.  All     *)
(* coordinates are whole numbers of grid points, TetraPrecision of them    *)
(* per unit length.                                                        *)
(***************************************************************************)
TetraPrecision == 4

\* The determinant of the vectors a, b, c.
Det3(a, b, c) ==
      a[1] * (b[2] * c[3] - b[3] * c[2])
    - a[2] * (b[1] * c[3] - b[3] * c[1])
    + a[3] * (b[1] * c[2] - b[2] * c[1])

VecSub(u, v) == << u[1] - v[1], u[2] - v[2], u[3] - v[3] >>

\* Six times the signed volume of the tetrahedron a, b, c, p.
SignedVolume(a, b, c, p) == Det3(VecSub(b, a), VecSub(c, a), VecSub(p, a))

\* The six tetrahedra of an octagon, as positions in its vertex array
\* (counted from 1): each one holds the first and the last vertex.
TetraVertices ==
    << << 1, 2, 4, 8 >>, << 1, 2, 6, 8 >>, << 1, 3, 4, 8 >>,
       << 1, 3, 7, 8 >>, << 1, 5, 6, 8 >>, << 1, 5, 7, 8 >> >>

\* p is on the side of the plane a, b, c on which d is; on the plane itself
\* if the face accepts its boundary.
TetraSide(a, b, c, d, p, accepts) ==
    LET vd == SignedVolume(a, b, c, d)
        vp == SignedVolume(a, b, c, p)
    IN  /\ vd # 0
        /\ IF accepts THEN vd * vp >= 0 ELSE vd * vp > 0

\* contains that accepts the points of all six faces.
contains_Closed(o, p) ==
    \E t \in 1..6 :
        LET a == o[TetraVertices[t][1]]
            b == o[TetraVertices[t][2]]
            c == o[TetraVertices[t][3]]
            d == o[TetraVertices[t][4]]
        IN  /\ TetraSide(a, b, c, d, p, TRUE)
            /\ TetraSide(a, b, d, c, p, TRUE)
            /\ TetraSide(a, c, d, b, p, TRUE)
            /\ TetraSide(b, c, d, a, p, TRUE)

\* contains with the roles of the faces exchanged: the faces adjacent to the
\* first vertex reject their points, the others accept them.
contains_Flipped(o, p) ==
    \E t \in 1..6 :
        LET a == o[TetraVertices[t][1]]
            b == o[TetraVertices[t][2]]
            c == o[TetraVertices[t][3]]
            d == o[TetraVertices[t][4]]
        IN  /\ TetraSide(a, b, c, d, p, FALSE)
            /\ TetraSide(a, b, d, c, p, TRUE)
            /\ TetraSide(a, c, d, b, p, TRUE)
            /\ TetraSide(b, c, d, a, p, TRUE)

\* Octagon::contains: p is in one of the six tetrahedra.  The face of a
\* tetrahedron without the first vertex lies on a face of the octagon that is
\* not adjacent to the first vertex, and rejects its points.
contains(o, p) ==
    \E t \in 1..6 :
        LET a == o[TetraVertices[t][1]]
            b == o[TetraVertices[t][2]]
            c == o[TetraVertices[t][3]]
            d == o[TetraVertices[t][4]]
        IN  /\ TetraSide(a, b, c, d, p, TRUE)
            /\ TetraSide(a, b, d, c, p, TRUE)
            /\ TetraSide(a, c, d, b, p, TRUE)
            /\ TetraSide(b, c, d, a, p, FALSE)

\* test_tetra.cpp lines 142-153: PointArray with its middle point at mid.
PointArray(mid) ==
    [x \in 0..2 |-> [y \in 0..2 |-> [z \in 0..2 |->
        IF << x, y, z >> = << 1, 1, 1 >> THEN mid
        ELSE << (x * TetraPrecision) \div 2, (y * TetraPrecision) \div 2,
                (z * TetraPrecision) \div 2 >>]]]

extract_bit(value, bitno) == (value \div Pow2(bitno)) % 2

\* test_tetra.cpp lines 160-171.
getVerticesAtPosition(pa, id) ==
    LET x == extract_bit(id, 0)
        y == extract_bit(id, 1)
        z == extract_bit(id, 2)
    IN  << pa[1 + x][1 + y][1 + z], pa[0 + x][1 + y][1 + z],
           pa[1 + x][0 + y][1 + z], pa[0 + x][0 + y][1 + z],
           pa[1 + x][1 + y][0 + z], pa[0 + x][1 + y][0 + z],
           pa[1 + x][0 + y][0 + z], pa[0 + x][0 + y][0 + z] >>

\* test_tetra.cpp lines 107-128: the middle points randomPoint() draws, at
\* most one grid point away from the middle of the cube.
MiddlePoints ==
    LET h == TetraPrecision \div 2
    IN  {<< h, h, h >>, << h + 1, h, h >>, << h - 1, h, h >>, << h, h + 1, h >>,
         << h, h - 1, h >>, << h, h, h + 1 >>, << h, h, h - 1 >>}

\* test_tetra.cpp lines 347-353: the eight octagons around a middle point.
Split8(mid) == [k \in 1..8 |-> getVerticesAtPosition(PointArray(mid), k - 1)]

\* test_tetra.cpp lines 227-337: the cube cut in two across axis dim; the cut
\* passes the four edges along that axis at the heights q[1], ..., q[4].
\* Vertex k of an octagon lies low on axis i when bit i of k is set.
Split2(dim, q) ==
    LET P == TetraPrecision
        e1 == IF dim = 1 THEN 1 ELSE 0
        e2 == IF dim = 2 THEN 1 ELSE 0
        e3 == IF dim = 3 THEN 1 ELSE 0
        low(k) == << extract_bit(k, 0), extract_bit(k, 1), extract_bit(k, 2) >>
        \* the corner of the cube with the given low flags
        corner(f) == << P * (1 - f[1]), P * (1 - f[2]), P * (1 - f[3]) >>
        \* the number of the edge along dim through the corner with flags f
        edge(f) ==
            IF dim = 1 THEN 1 + f[2] + 2 * f[3]
            ELSE IF dim = 2 THEN 1 + f[1] + 2 * f[3]
            ELSE 1 + f[1] + 2 * f[2]
        cut(f) ==
            << IF dim = 1 THEN q[edge(f)] ELSE corner(f)[1],
               IF dim = 2 THEN q[edge(f)] ELSE corner(f)[2],
               IF dim = 3 THEN q[edge(f)] ELSE corner(f)[3] >>
    IN  << [k \in 1..8 |-> IF low(k - 1)[dim] = 1 THEN cut(low(k - 1))
                                                 ELSE corner(low(k - 1))],
           [k \in 1..8 |-> IF low(k - 1)[dim] = 1 THEN corner(low(k - 1))
                                                 ELSE cut(low(k - 1))] >>

\* The heights of a cut: one grid point above the bottom or below the top.
CutHeights == {1, TetraPrecision - 1}

\* The sets of octagons the tests build: the whole cube (lines 372-380), the
\* cube cut in two and the cube split into eight.
Tilings ==
      {<< getVerticesAtPosition(
             [x \in 0..2 |-> [y \in 0..2 |-> [z \in 0..2 |->
                 << x * TetraPrecision, y * TetraPrecision, z * TetraPrecision >>]]],
             0) >>}
    \cup {Split2(dim, q) : dim \in 1..3, q \in [1..4 -> CutHeights]}
    \cup {Split8(mid) : mid \in MiddlePoints}

\* The points of the cube on the grid.
GridPoints == (0..TetraPrecision) \X (0..TetraPrecision) \X (0..TetraPrecision)

InitTetra ==
    /\ octs \in Tilings
    /\ point = << >>
    /\ inside = {}
    /\ gridpoint = << >>
    /\ gridpoints = << >>
    /\ old_gridpoint = << >>
    /\ my_dom = << >>
    /\ neighbor_doms = << >>
    /\ const_neighborhood = << >>
    /\ m_kdtree = << >>
    /\ repart_tree = << >>
    /\ m_local_subdomain = << >>
    /\ m_neighbor_processes = << >>
    /\ m_boundary_info = << >>
    /\ cellweights = << >>
    /\ sendVolume = << >>
    /\ sendLists = << >>
    /\ neighcomm = << >>
    /\ live_comms = << >>
    /\ comm_size = 1
    /\ gbox = << 1, 1, 1 >>
    /\ pc = [r \in {0} |-> "idle"]
    /\ ncallbacks = [r \in {0} |-> 0]
    /\ retval = [r \in {0} |-> "none"]
    /\ partition = << >>
    /\ localCells = << >>
    /\ ghostCells = << >>
    /\ cells = << >>
    /\ global_to_local = << >>
    /\ neighbors = << >>
    /\ borderCells = << >>
    /\ borderCellsNeighbors = << >>
    /\ exchangeVector = << >>
    /\ nmoved = 0
    /\ oob = FALSE
    /\ thrown = "none"
    /\ m_num_local_cells = << >>
    /\ nquads_per_proc = << >>
    /\ chan = << >>
    /\ received = << >>
    /\ round = << >>
    /\ loadchan = << >>
    /\ box_l = << >>
    /\ max_range = << >>
    /\ metric_weight = << >>
    /\ m_cell_size = << >>

\* test_tetra.cpp lines 64-77: a pass of the loop of ninsideDomains, which
\* asks every octagon about the point p.  The passes do not depend on each
\* other; a behavior is one of them.
ninsideDomains(p) ==
    /\ point = << >>
    /\ point' = p
    /\ inside' = {k \in 1..Len(octs) : contains(octs[k], p)}
    /\ UNCHANGED << comm_size, gbox, partition, localCells, ghostCells, cells,
                    global_to_local, neighbors, borderCells, borderCellsNeighbors,
                    exchangeVector, pc, ncallbacks, retval, nmoved, oob, thrown,
                    sfcvars, msgvars, boxvars, metric_weight, octs, gridvars,
                    kdvars, localvars, commvars >>

NextTetra == \E p \in GridPoints : ninsideDomains(p)

SpecTetra == InitTetra /\ [][NextTetra]_vars

(***************************************************************************)
(* GridBasedGrid (gridbased.hpp): the ranks form a process grid along the  *)
(* first axis over a row of cells.  Positions are whole numbers of grid    *)
(* points of util::tetra; the box is periodic.                             *)
(***************************************************************************)
\* The length of a cell and min_cell_size, the cutoff of the octagons.
GridCellWidth == 10

GridCutoff == 8

\* The displacements mu * (center of load - gridpoint) of a round, and the
\* largest distance of a grid point from its place in the regular grid.
Shifts == {-2, 0, 2}

MaxDrift == 6

GridLength == ncells(gbox) * GridCellWidth

\* The midpoint of cell c.
CellMidpoint(c) ==
    << c * GridCellWidth + GridCellWidth \div 2, GridCellWidth \div 2,
       GridCellWidth \div 2 >>

\* init_regular_partitioning: the grid point of rank r in the regular grid.
RegularGridpoint(r) == ((r + 1) * GridLength) \div comm_size

\* create_cartesian_neighborhood: the ranks next to r in the process grid.
create_cartesian_neighborhood(r) ==
    {(r + 1) % comm_size, (r + comm_size - 1) % comm_size} \ {r}

\* shifted_bounding_box: the 8 vertices of the subdomain of rank r for the
\* grid points pts.  The grid point of r is the first vertex; the vertices low
\* on the first axis are the grid point of the rank before r, mirrored by the
\* length of the box for rank 0.
shifted_bounding_box(pts, r) ==
    LET hi == pts[r]
        lo == IF r = 0 THEN pts[comm_size - 1] - GridLength ELSE pts[r - 1]
    IN  [k \in 1..8 |->
            << IF extract_bit(k - 1, 0) = 1 THEN lo ELSE hi,
               IF extract_bit(k - 1, 1) = 1 THEN 0 ELSE GridCellWidth,
               IF extract_bit(k - 1, 2) = 1 THEN 0 ELSE GridCellWidth >>]

\* Octagon::is_valid: the six tetrahedra have a volume, and opposite faces
\* are at least the cutoff apart along each axis.
is_valid(o) ==
    /\ \A t \in 1..6 :
           SignedVolume(o[TetraVertices[t][1]], o[TetraVertices[t][2]],
                        o[TetraVertices[t][3]], o[TetraVertices[t][4]]) # 0
    /\ \A b \in 0..2 : \A k \in 0..7 :
           extract_bit(k, b) = 0 =>
               o[k + 1][b + 1] - o[k + Pow2(b) + 1][b + 1] >= GridCutoff

\* The octagon o contains the midpoint of cell c or one of its periodic
\* images.
ContainsCell(o, c) ==
    \E m \in {-1, 0, 1} :
        contains(o, << CellMidpoint(c)[1] + m * GridLength, CellMidpoint(c)[2],
                       CellMidpoint(c)[3] >>)

\* init_octagons on rank r for the gathered grid points pts.
init_octagons(r, pts) ==
    [my_dom |-> shifted_bounding_box(pts, r),
     neighbor_doms |-> [q \in const_neighborhood[r] |-> shifted_bounding_box(pts, q)]]

\* check_validity_of_subdomains on rank r for the octagons doms.
check_validity_of_subdomains(doms) ==
    /\ is_valid(doms.my_dom)
    /\ \A q \in DOMAIN doms.neighbor_doms : is_valid(doms.neighbor_doms[q])

\* rank_of_cell on rank r: the own octagon first, then those of the neighbors.
rank_of_cell(r, doms, c) ==
    IF ContainsCell(doms.my_dom, c) THEN r
    ELSE IF \E q \in DOMAIN doms.neighbor_doms : ContainsCell(doms.neighbor_doms[q], c)
         THEN CHOOSE q \in DOMAIN doms.neighbor_doms : ContainsCell(doms.neighbor_doms[q], c)
         ELSE UNKNOWN

\* The cells next to cell c in the row.
RowNeighbors(c) == {(c + 1) % ncells(gbox), (c + ncells(gbox) - 1) % ncells(gbox)} \ {c}

\* GloMethod::init on rank r: the local cells are the cells in the own
\* octagon, the ghost cells their neighbors, the neighbors the owners of the
\* ghost cells, with one exchange descriptor each.
GloInit(r, doms) ==
    Bind({c \in Cells : ContainsCell(doms.my_dom, c)}, LAMBDA local :
    Bind({c \in Cells \ local : RowNeighbors(c) \cap local # {}}, LAMBDA ghost :
    Bind(Eval([c \in ghost |-> rank_of_cell(r, doms, c)]), LAMBDA owner :
    Bind(SortSet({owner[c] : c \in ghost}), LAMBDA nbrs :
        [localCells |-> Cardinality(local),
         ghostCells |-> Cardinality(ghost),
         cells |-> SortSet(local) \o SortSet(ghost),
         neighbors |-> nbrs,
         exchangeVector |->
             Eval([i \in 1..Len(nbrs) |->
                 [dest |-> nbrs[i],
                  recv |-> SortSet({c \in ghost : owner[c] = nbrs[i]}),
                  send |-> SortSet({l \in local : \E c \in RowNeighbors(l) \cap ghost :
                                                     owner[c] = nbrs[i]})]])]))))

\* neighbor_ranks() of GloMethod: the owners of the ghost cells.
neighbor_ranks_GloMethod(r) == Range(neighbors[r])

\* GridBasedGrid::neighbor_ranks.
neighbor_ranks(r) == const_neighborhood[r]

\* The constructor on every rank: the regular grid, the neighborhood, the
\* octagons and the first init.
InitGrid ==
    \E size \in {3} :
        /\ comm_size = size
        /\ gbox = << size, 1, 1 >>
        /\ gridpoint = [r \in Ranks |-> RegularGridpoint(r)]
        /\ gridpoints = [r \in Ranks |-> [q \in Ranks |-> RegularGridpoint(q)]]
        /\ old_gridpoint = [r \in Ranks |-> << >>]
        /\ const_neighborhood = [r \in Ranks |-> create_cartesian_neighborhood(r)]
        /\ m_kdtree = << >>
        /\ repart_tree = << >>
        /\ m_local_subdomain = << >>
        /\ m_neighbor_processes = << >>
        /\ m_boundary_info = << >>
        /\ cellweights = << >>
        /\ sendVolume = << >>
        /\ sendLists = << >>
        /\ neighcomm = << >>
        /\ live_comms = << >>
        /\ LET doms == [r \in Ranks |-> init_octagons(r, gridpoints[r])]
               G == [r \in Ranks |-> GloInit(r, doms[r])]
           IN  /\ my_dom = [r \in Ranks |-> doms[r].my_dom]
               /\ neighbor_doms = [r \in Ranks |-> doms[r].neighbor_doms]
               /\ localCells = [r \in Ranks |-> G[r].localCells]
               /\ ghostCells = [r \in Ranks |-> G[r].ghostCells]
               /\ cells = [r \in Ranks |-> G[r].cells]
               /\ neighbors = [r \in Ranks |-> G[r].neighbors]
               /\ exchangeVector = [r \in Ranks |-> G[r].exchangeVector]
        /\ pc = [r \in Ranks |-> "idle"]
        /\ ncallbacks = [r \in Ranks |-> 0]
        /\ retval = [r \in Ranks |-> "none"]
        /\ partition = << >>
        /\ global_to_local = << >>
        /\ borderCells = << >>
        /\ borderCellsNeighbors = << >>
        /\ nmoved = 0
        /\ oob = FALSE
        /\ thrown = "none"
        /\ m_num_local_cells = << >>
        /\ nquads_per_proc = << >>
        /\ chan = << >>
        /\ received = << >>
        /\ round = << >>
        /\ loadchan = << >>
        /\ box_l = << >>
        /\ max_range = << >>
        /\ metric_weight = << >>
        /\ m_cell_size = << >>
        /\ octs = << >>
        /\ point = << >>
        /\ inside = {}

\* What the GloMethod and the other grids keep, which a GridBasedGrid round
\* before its init leaves alone.
gridrest == << comm_size, gbox, partition, global_to_local, borderCells,
               borderCellsNeighbors, nmoved, oob, thrown, sfcvars, msgvars, boxvars,
               metric_weight, tetravars, kdvars, localvars, commvars >>

\* sub_repartition on every rank up to the all-reduce of the conflicts: rank r
\* shifts its grid point by d[r], the grid points are gathered, the octagons
\* are built from them and checked.
SubRepartition(d) ==
    /\ \A r \in Ranks : pc[r] = "idle"
    /\ \A r \in Ranks :
           /\ gridpoint[r] + d[r] - RegularGridpoint(r) <= MaxDrift
           /\ RegularGridpoint(r) - gridpoint[r] - d[r] <= MaxDrift
    /\ old_gridpoint' = [r \in Ranks |->
                            [gridpoint |-> gridpoint[r], gridpoints |-> gridpoints[r]]]
    /\ gridpoint' = [r \in Ranks |-> gridpoint[r] + d[r]]
    /\ gridpoints' = [r \in Ranks |-> [q \in Ranks |-> gridpoint[q] + d[q]]]
    /\ \E doms \in {[r \in Ranks |->
                        init_octagons(r, [q \in Ranks |-> gridpoint[q] + d[q]])]} :
           /\ my_dom' = [r \in Ranks |-> doms[r].my_dom]
           /\ neighbor_doms' = [r \in Ranks |-> doms[r].neighbor_doms]
           /\ \E valid \in {\A q \in Ranks : check_validity_of_subdomains(doms[q])} :
                  pc' = [r \in Ranks |-> IF valid THEN "accepted" ELSE "conflict"]
    /\ ncallbacks' = [r \in Ranks |-> 0]
    /\ retval' = [r \in Ranks |-> "none"]
    /\ UNCHANGED << gridrest, const_neighborhood, localCells, ghostCells, cells,
                    neighbors, exchangeVector >>

\* The rollback on rank r that restores the grid points and leaves the
\* octagons of the rejected grid points in place.
Rollback_KeepOctagons(r) ==
    /\ pc[r] = "conflict"
    /\ gridpoint' = [gridpoint EXCEPT ![r] = old_gridpoint[r].gridpoint]
    /\ gridpoints' = [gridpoints EXCEPT ![r] = old_gridpoint[r].gridpoints]
    /\ pc' = [pc EXCEPT ![r] = "idle"]
    /\ retval' = [retval EXCEPT ![r] = "false"]
    /\ UNCHANGED << gridrest, const_neighborhood, old_gridpoint, my_dom, neighbor_doms,
                    localCells, ghostCells, cells, neighbors, exchangeVector,
                    ncallbacks >>

\* sub_repartition on rank r after a conflict: the grid points of before the
\* call are restored, the octagons rebuilt, and repartition returns false.
Rollback(r) ==
    /\ pc[r] = "conflict"
    /\ gridpoint' = [gridpoint EXCEPT ![r] = old_gridpoint[r].gridpoint]
    /\ gridpoints' = [gridpoints EXCEPT ![r] = old_gridpoint[r].gridpoints]
    /\ \E doms \in {init_octagons(r, old_gridpoint[r].gridpoints)} :
           /\ my_dom' = [my_dom EXCEPT ![r] = doms.my_dom]
           /\ neighbor_doms' = [neighbor_doms EXCEPT ![r] = doms.neighbor_doms]
    /\ pc' = [pc EXCEPT ![r] = "idle"]
    /\ retval' = [retval EXCEPT ![r] = "false"]
    /\ UNCHANGED << gridrest, const_neighborhood, old_gridpoint, localCells,
                    ghostCells, cells, neighbors, exchangeVector, ncallbacks >>

\* GloMethod::repartition on rank r after sub_repartition returned true: the
\* callback, init() and the return of true.
GridFinish(r) ==
    /\ pc[r] = "accepted"
    /\ \E G \in {GloInit(r, [my_dom |-> my_dom[r], neighbor_doms |-> neighbor_doms[r]])} :
           /\ localCells' = [localCells EXCEPT ![r] = G.localCells]
           /\ ghostCells' = [ghostCells EXCEPT ![r] = G.ghostCells]
           /\ cells' = [cells EXCEPT ![r] = G.cells]
           /\ neighbors' = [neighbors EXCEPT ![r] = G.neighbors]
           /\ exchangeVector' = [exchangeVector EXCEPT ![r] = G.exchangeVector]
    /\ ncallbacks' = [ncallbacks EXCEPT ![r] = 1]
    /\ pc' = [pc EXCEPT ![r] = "idle"]
    /\ retval' = [retval EXCEPT ![r] = "true"]
    /\ UNCHANGED << gridrest, gridvars >>

NextGrid ==
    \/ \E d \in [Ranks -> Shifts] : SubRepartition(d)
    \/ \E r \in Ranks : Rollback(r)
    \/ \E r \in Ranks : GridFinish(r)

SpecGrid == InitGrid /\ [][NextGrid]_vars

(***************************************************************************)
(* KDTreeGrid.  A Domain is a box of cells [lo, hi): it includes the       *)
(* coordinate of its lower corner and excludes that of its upper corner.   *)
(* The tree is rebuilt by recursive bisection from the gathered weights;   *)
(* every rank then derives its sub-box, its neighbors and its exchange     *)
(* descriptors from the tree.                                              *)
(***************************************************************************)

\* The cell grids and process counts of the KDTreeGrid runs.
KdGrids == {[g |-> << 4, 4, 4 >>, size |-> 8], [g |-> << 3, 2, 1 >>, size |-> 3],
            [g |-> << 2, 2, 1 >>, size |-> 2], [g |-> << 3, 1, 2 >>, size |-> 4]}

\* KDTreeGrid::domain_size.
domain_size(d) == [i \in 1..3 |-> d.hi[i] - d.lo[i]]

\* KDTreeGrid::volume.
volume(d) == ncells(domain_size(d))

\* KDTreeGrid::cells: the cell vectors of a domain.
DomainCells(d) ==
    {<< x, y, z >> : x \in d.lo[1]..(d.hi[1] - 1), y \in d.lo[2]..(d.hi[2] - 1),
                     z \in d.lo[3]..(d.hi[3] - 1)}

\* KDTreeGrid::domain_contains_cell.
domain_contains_cell(d, c) == \A i \in 1..3 : d.lo[i] <= c[i] /\ c[i] < d.hi[i]

\* KDTreeGrid::ghostdomain_bounds: the domain grown by one cell on every side.
ghostdomain_bounds(d) ==
    [lo |-> [i \in 1..3 |-> d.lo[i] - 1], hi |-> [i \in 1..3 |-> d.hi[i] + 1]]

\* The cell of the global grid a cell vector of a ghost domain stands for.
PeriodicCell(c) == [i \in 1..3 |-> c[i] % gbox[i]]

\* m_global_domain.
GlobalDomain == [lo |-> << 0, 0, 0 >>, hi |-> gbox]

\* The sum of the weights w of the cells of S.
RECURSIVE DomainWeight(_, _)
DomainWeight(w, S) ==
    IF S = {} THEN 0
    ELSE LET c == CHOOSE x \in S : TRUE
         IN  w[linearize(c, gbox)] + DomainWeight(w, S \ {c})

\* The part of d below (at = "lo") and from (at = "hi") position s of the axis.
SubBox(d, axis, s, at) ==
    IF at = "lo" THEN [lo |-> d.lo, hi |-> [d.hi EXCEPT ![axis] = s]]
    ELSE [lo |-> [d.lo EXCEPT ![axis] = s], hi |-> d.hi]

\* The axis a box is split along: the axes in turn, or the longest side;
\* an axis of one cell cannot be split.
SplitAxis(d, depth, rule) ==
    LET len == domain_size(d)
        next(a) == (a % 3) + 1
        turn == (depth % 3) + 1
    IN  IF rule = "longest"
        THEN CHOOSE a \in 1..3 :
                 /\ \A b \in 1..3 : len[b] <= len[a]
                 /\ \A b \in 1..(a - 1) : len[b] < len[a]
        ELSE IF len[turn] > 1 THEN turn
             ELSE IF len[next(turn)] > 1 THEN next(turn) ELSE next(next(turn))

\* The positions that leave room for nl processes below and nr above.
SplitCandidates(d, axis, nl, nr) ==
    {s \in (d.lo[axis] + 1)..(d.hi[axis] - 1) :
        /\ volume(SubBox(d, axis, s, "lo")) >= nl
        /\ volume(SubBox(d, axis, s, "hi")) >= nr}

\* How far the weight below position s is from the share of the nl of n
\* processes, in units of 1/n.
Imbalance(w, d, axis, s, nl, n) ==
    LET below == DomainWeight(w, DomainCells(SubBox(d, axis, s, "lo")))
        total == DomainWeight(w, DomainCells(d))
        diff == below * n - total * nl
    IN  IF diff < 0 THEN -diff ELSE diff

\* The split that takes the first position, whatever the weights.
SplitPosition_First(w, d, axis, nl, n) ==
    CHOOSE s \in SplitCandidates(d, axis, nl, n - nl) :
        \A t \in SplitCandidates(d, axis, nl, n - nl) : s <= t

\* The split position: the one that balances the weight below and above in
\* proportion to the processes, the lowest of several.
SplitPosition(w, d, axis, nl, n) ==
    LET cand == SplitCandidates(d, axis, nl, n - nl)
        imb == [s \in cand |-> Imbalance(w, d, axis, s, nl, n)]
    IN  CHOOSE s \in cand :
            \A t \in cand : imb[s] < imb[t] \/ (imb[s] = imb[t] /\ s <= t)

\* The tree over the n processes from rank first on, as the sub-box of each.
RECURSIVE BuildTree(_, _, _, _, _, _)
BuildTree(w, d, first, n, depth, rule) ==
    IF n = 1 THEN (first :> d)
    ELSE LET nl == n \div 2
             axis == SplitAxis(d, depth, rule)
             s == SplitPosition(w, d, axis, nl, n)
         IN  BuildTree(w, SubBox(d, axis, s, "lo"), first, nl, depth + 1, rule)
                 @@ BuildTree(w, SubBox(d, axis, s, "hi"), first + nl, n - nl,
                              depth + 1, rule)

\* The rule the tree picks its split axis by.
SplitRules == {"cycle", "longest"}

\* KDTreeGrid::intersection_domains(neighbor_subdomain, ghostdomain): the
\* cell vectors of the ghost layer of own that stand for cells of the
\* sub-box of a peer, the periodic images included.
intersection_domains(peer, own) ==
    {c \in DomainCells(ghostdomain_bounds(own)) :
        /\ ~domain_contains_cell(own, c)
        /\ domain_contains_cell(peer, PeriodicCell(c))}

\* KDTreeGrid::init_recv_cells: the ghost cells received from the peer.
init_recv_cells(tree, r, q) == intersection_domains(tree[q], tree[r])

\* KDTreeGrid::init_send_cells: the local cells in the ghost layer of the peer.
init_send_cells(tree, r, q) ==
    {PeriodicCell(c) : c \in intersection_domains(tree[r], tree[q])}

\* The ranks of S in ascending order.
RECURSIVE RanksInOrder(_)
RanksInOrder(S) ==
    IF S = {} THEN << >>
    ELSE LET q == CHOOSE x \in S : \A y \in S : x <= y
         IN  << q >> \o RanksInOrder(S \ {q})

\* KDTreeGrid::init_neighborhood_information: the ranks whose sub-box meets
\* the ghost domain of r, with their exchange descriptors.
init_neighborhood_information(tree, r) ==
    LET recv == [q \in Ranks |-> init_recv_cells(tree, r, q)]
        procs == RanksInOrder({q \in Ranks : recv[q] # {}})
    IN  [m_neighbor_processes |-> procs,
         m_boundary_info |->
             [i \in 1..Len(procs) |->
                 [dest |-> procs[i], recv |-> recv[procs[i]],
                  send |-> init_send_cells(tree, r, procs[i])]]]

\* The weights a metric gives the cells: any on a small grid, the same for
\* every cell on a large one.
KdMetrics ==
    IF ncells(gbox) <= 6 THEN [Cells -> 0..MaxWeight]
    ELSE {[c \in Cells |-> k] : k \in 1..(MaxWeight + 1)}

\* The constructor on every rank: the tree for equal weights.
InitKd ==
    \E cfg \in KdGrids : \E rule \in SplitRules :
        /\ comm_size = cfg.size
        /\ gbox = cfg.g
        /\ \E tree \in {BuildTree([c \in 0..(ncells(cfg.g) - 1) |-> 1],
                                  [lo |-> << 0, 0, 0 >>, hi |-> cfg.g],
                                  0, cfg.size, 0, rule)} :
               /\ m_kdtree = [r \in 0..(cfg.size - 1) |-> tree]
               /\ repart_tree = tree
               /\ m_local_subdomain = [r \in 0..(cfg.size - 1) |-> tree[r]]
        /\ \E info \in {[r \in Ranks |-> init_neighborhood_information(m_kdtree[r], r)]} :
               /\ m_neighbor_processes = [r \in Ranks |-> info[r].m_neighbor_processes]
               /\ m_boundary_info = [r \in Ranks |-> info[r].m_boundary_info]
        /\ pc = [r \in Ranks |-> "idle"]
        /\ ncallbacks = [r \in Ranks |-> 0]
        /\ retval = [r \in Ranks |-> "none"]
        /\ partition = << >>
        /\ localCells = << >>
        /\ ghostCells = << >>
        /\ cells = << >>
        /\ neighbors = << >>
        /\ exchangeVector = << >>
        /\ global_to_local = << >>
        /\ borderCells = << >>
        /\ borderCellsNeighbors = << >>
        /\ nmoved = 0
        /\ oob = FALSE
        /\ thrown = "none"
        /\ m_num_local_cells = << >>
        /\ nquads_per_proc = << >>
        /\ chan = << >>
        /\ received = << >>
        /\ round = << >>
        /\ loadchan = << >>
        /\ box_l = << >>
        /\ max_range = << >>
        /\ metric_weight = << >>
        /\ m_cell_size = << >>
        /\ octs = << >>
        /\ point = << >>
        /\ inside = {}
        /\ gridpoint = << >>
        /\ gridpoints = << >>
        /\ old_gridpoint = << >>
        /\ my_dom = << >>
        /\ neighbor_doms = << >>
        /\ const_neighborhood = << >>
        /\ cellweights = << >>
        /\ sendVolume = << >>
        /\ sendLists = << >>
        /\ neighcomm = << >>
        /\ live_comms = << >>

\* What a KDTreeGrid does not have.
kdrest == << comm_size, gbox, partition, localCells, ghostCells, cells,
             global_to_local, neighbors, borderCells, borderCellsNeighbors,
             exchangeVector, nmoved, oob, thrown, sfcvars, msgvars, boxvars,
             metric_weight, tetravars, gridvars, localvars, commvars >>

\* repartition on every rank up to the end of the collective steps: the
\* weights w are gathered and the tree is built from them.
KdRepartition(w, rule) ==
    /\ \A r \in Ranks : pc[r] = "idle"
    /\ repart_tree' = BuildTree(w, GlobalDomain, 0, comm_size, 0, rule)
    /\ pc' = [r \in Ranks |-> "rebuild"]
    /\ ncallbacks' = [r \in Ranks |-> 0]
    /\ retval' = [r \in Ranks |-> "none"]
    /\ UNCHANGED << kdrest, m_kdtree, m_local_subdomain, m_neighbor_processes,
                    m_boundary_info >>

\* repartition on rank r from the new tree on: the callback, reinitialize()
\* and the return of true.
KdReinitialize(r) ==
    /\ pc[r] = "rebuild"
    /\ m_kdtree' = [m_kdtree EXCEPT ![r] = repart_tree]
    /\ m_local_subdomain' = [m_local_subdomain EXCEPT ![r] = repart_tree[r]]
    /\ \E info \in {init_neighborhood_information(repart_tree, r)} :
           /\ m_neighbor_processes' =
                  [m_neighbor_processes EXCEPT ![r] = info.m_neighbor_processes]
           /\ m_boundary_info' = [m_boundary_info EXCEPT ![r] = info.m_boundary_info]
    /\ ncallbacks' = [ncallbacks EXCEPT ![r] = 1]
    /\ pc' = [pc EXCEPT ![r] = "idle"]
    /\ retval' = [retval EXCEPT ![r] = "true"]
    /\ UNCHANGED << kdrest, repart_tree >>

NextKd ==
    \/ \E w \in KdMetrics : \E rule \in SplitRules : KdRepartition(w, rule)
    \/ \E r \in Ranks : KdReinitialize(r)

SpecKd == InitKd /\ [][NextKd]_vars

(***************************************************************************)
(* Properties.  A rank is between two calls when pc[r] = "idle"; the       *)
(* structures of different ranks belong to the same partition when all     *)
(* ranks are idle.                                                         *)
(***************************************************************************)
AllIdle == \A r \in Ranks : pc[r] = "idle"

\* A round that moved at least one cell has returned on every rank.
AfterMove == AllIdle /\ nmoved > 0 /\ \A r \in Ranks : retval[r] = "true"

\* The global indices of the local cells and of the ghost cells of rank r.
LocalSet(r) == {cells[r][i] : i \in 1..localCells[r]}

\* The exchange descriptors of rank r with destination s.
DescsTo(r, s) == {i \in 1..Len(exchangeVector[r]) : exchangeVector[r][i].dest = s}

\* C1: between calls every global cell is a local cell of exactly one rank,
\* and the local cell counts of all ranks sum up to the number of cells.
C1_Partition ==
    AllIdle =>
        /\ \A c \in Cells : Cardinality({r \in Ranks : c \in LocalSet(r)}) = 1
        /\ \A r \in Ranks : Cardinality(LocalSet(r)) = localCells[r]
        /\ Sum([n \in 1..comm_size |-> localCells[n - 1]], 1) = ncells(gbox)

C1_Witness == AfterMove /\ \E r \in Ranks : localCells[r] = 1

\* C2: rank A has a descriptor with destination B exactly if B has one with
\* destination A, each has at most one, and A sends to B as many cells as B
\* receives from A.
C2_DescriptorSymmetry ==
    AllIdle =>
        \A a, b \in Ranks :
            /\ Cardinality(DescsTo(a, b)) <= 1
            /\ (DescsTo(a, b) # {}) <=> (DescsTo(b, a) # {})
            /\ \A i \in DescsTo(a, b) : \A j \in DescsTo(b, a) :
                   Len(exchangeVector[a][i].send) = Len(exchangeVector[b][j].recv)

C2_Witness ==
    AfterMove /\ \E a, b \in Ranks : \E i \in DescsTo(a, b) :
        Len(exchangeVector[a][i].send) >= 2 /\ Len(exchangeVector[a][i].recv) = 1

\* C3: the i-th send cell of A towards B and the i-th receive cell of B from A
\* are the same global cell, both lists are in ascending order of the global
\* cell index, and no cell is listed twice.
C3_SendRecvOrder ==
    AllIdle =>
        \A a, b \in Ranks : \A i \in DescsTo(a, b) : \A j \in DescsTo(b, a) :
            LET snd == exchangeVector[a][i].send
                rcv == exchangeVector[b][j].recv
            IN  /\ Len(snd) = Len(rcv)
                /\ \A k \in 1..Len(snd) : cells[a][snd[k] + 1] = cells[b][rcv[k] + 1]
                /\ \A k \in 1..(Len(snd) - 1) :
                       cells[a][snd[k] + 1] < cells[a][snd[k + 1] + 1]

C3_Witness ==
    AfterMove /\ \E a, b \in Ranks : \E i \in DescsTo(a, b) :
        LET snd == exchangeVector[a][i].send
            rcv == exchangeVector[a][i].recv
        IN  Len(snd) >= 2 /\ Len(rcv) >= 2 /\ rcv[1] > rcv[2]

\* C4: within one descriptor the number of cells to receive equals the
\* number of cells to send.
C4_SendEqualsRecv ==
    AllIdle =>
        \A r \in Ranks : \A i \in 1..Len(exchangeVector[r]) :
            Len(exchangeVector[r][i].send) = Len(exchangeVector[r][i].recv)

\* Lines 142-145: the index of the neigh-th neighbor of the local cell cellidx.
\* operator[] of the map gives 0 for a global cell that has no entry.
cell_neighbor_index(r, cellidx, neigh) ==
    LET g == full_shell_neigh(cells[r][cellidx + 1])[neigh + 1]
    IN  IF g \in DOMAIN global_to_local[r] THEN global_to_local[r][g] ELSE 0

C6_DescriptorWellFormed ==
    AllIdle =>
        \A r \in Ranks : \A i \in 1..Len(exchangeVector[r]) :
            LET d == exchangeVector[r][i]
            IN  /\ d.dest \in Ranks
                /\ Len(d.send) > 0
                /\ Len(d.recv) > 0
                /\ \A k \in 1..Len(d.send) : d.send[k] \in 0..(localCells[r] - 1)
                /\ \A k \in 1..Len(d.recv) :
                       d.recv[k] \in localCells[r]..(localCells[r] + ghostCells[r] - 1)

C6_Witness ==
    AfterMove /\ \E r \in Ranks : Len(exchangeVector[r]) = 2 /\ localCells[r] >= 3

\* C7: B is a neighbour rank of A exactly if A is a neighbour rank of B, and
\* no neighbour list holds a rank twice.
C7_NeighborSymmetry ==
    AllIdle =>
        /\ NeighborsSymmetric
        /\ \A r \in Ranks : \A i, j \in 1..Len(neighbors[r]) :
               neighbors[r][i] = neighbors[r][j] => i = j

C7_Witness ==
    AfterMove /\ \E r, s \in Ranks : r # s /\ s \notin Range(neighbors[r])

\* C8: the destinations of the descriptors of a rank are exactly its
\* neighbour ranks.
C8_DescriptorDests ==
    AllIdle =>
        \A r \in Ranks :
            {exchangeVector[r][i].dest : i \in 1..Len(exchangeVector[r])}
                = Range(neighbors[r])

C8_Witness ==
    AfterMove /\ comm_size = 4 /\ \E r \in Ranks :
        Len(exchangeVector[r]) = 2 /\ Len(neighbors[r]) = 2 /\ localCells[r] = 2

\* C9: a call returns true exactly if the partition was changed, that is, if
\* at least one cell got a new owner.
C9_ReturnsTrueIffChanged ==
    \A r \in Ranks :
        /\ retval[r] = "true" => nmoved > 0
        /\ (pc[r] = "idle" /\ retval[r] # "none" /\ nmoved = 0) => retval[r] = "false"

\* The rank that owns cell c: the one whose own partition vector says so.
Owner(c) == CHOOSE s \in Ranks : partition[s][c] = s

\* C10: the callback has run exactly once in a call that returned true and
\* never in the construction; when it runs the rank knows the new owners
\* (its own cells are the new ones, every owner it knows is the right one)
\* and its cell lists, index maps and descriptors are untouched.
C10_CallbackState ==
    \A r \in Ranks :
        /\ retval[r] = "true" => ncallbacks[r] = 1
        /\ (retval[r] = "none" /\ pc[r] = "idle") => ncallbacks[r] = 0
        /\ pc[r] = "callback" =>
               /\ ncallbacks[r] = 1
               /\ \A c \in Cells :
                      /\ Cardinality({s \in Ranks : partition[s][c] = s}) = 1
                      /\ partition[r][c] # UNKNOWN => partition[r][c] = Owner(c)

C10_CallbackStep ==
    [][\A r \in Ranks : pc'[r] = "callback" =>
           /\ localCells'[r] = localCells[r]
           /\ ghostCells'[r] = ghostCells[r]
           /\ cells'[r] = cells[r]
           /\ global_to_local'[r] = global_to_local[r]
           /\ neighbors'[r] = neighbors[r]
           /\ exchangeVector'[r] = exchangeVector[r]]_vars

C10_Callback == []C10_CallbackState /\ C10_CallbackStep

C10_Witness ==
    \E r \in Ranks :
        /\ pc[r] = "callback"
        /\ ncallbacks[r] = 1
        /\ LocalSet(r) # {c \in Cells : partition[r][c] = r}

\* C11: on every rank, at the callback and between calls, every cell with a
\* cell of that rank in its 27-cell neighborhood has a known owner in the
\* partition vector of the rank, and reinit never read an UNKNOWN owner.
C11_KnownOwners ==
    /\ ~oob
    /\ \A r \in Ranks : \A c \in Cells :
           (\E n \in ShellTable[gbox][c] : partition[r][n] = r)
               => partition[r][c] # UNKNOWN

C11_Witness ==
    AfterMove /\ \E r \in Ranks : \E c \in Cells :
        /\ partition[r][c] = UNKNOWN
        /\ \E d \in Cells : partition[r][d] \notin {r, UNKNOWN}

\* C12: every rank owns at least one cell in every state of a run that
\* starts with at least one cell per rank, and between calls it has at least
\* one local cell.
C12_NoEmptyRank ==
    \A r \in Ranks :
        /\ \E c \in Cells : partition[r][c] = r
        /\ pc[r] = "idle" => localCells[r] >= 1

C12_Witness ==
    AfterMove /\ comm_size = 2 /\ ncells(gbox) = 6 /\ \E r \in Ranks : localCells[r] = 1

\* Lines 160-167: position_to_rank on rank r for a position in global cell c.
\* err names the exception thrown, "none" if the call returns val.
position_to_rank(r, c) ==
    IF partition[r][c] = UNKNOWN
    THEN [err |-> "runtime_error", val |-> UNKNOWN]
    ELSE [err |-> "none", val |-> partition[r][c]]

\* Lines 152-158: position_to_cell_index on rank r for a position in global
\* cell c.  An exception of position_to_rank passes through.
position_to_cell_index(r, c) ==
    LET pr == position_to_rank(r, c)
    IN  IF pr.err # "none" THEN pr
        ELSE IF pr.val # r THEN [err |-> "domain_error", val |-> UNKNOWN]
        ELSE [err |-> "none",
              val |-> IF c \in DOMAIN global_to_local[r]
                      THEN global_to_local[r][c] ELSE 0]

\* C13: between calls position_to_cell_index returns the local index of the
\* cell of the position if the cell is local and fails with std::domain_error
\* for every other cell, also for one whose owner is UNKNOWN on the rank.
C13_NotLocalError ==
    \A r \in Ranks : pc[r] = "idle" =>
        \A c \in Cells :
            LET res == position_to_cell_index(r, c)
            IN  IF c \in LocalSet(r)
                THEN /\ res.err = "none"
                     /\ res.val \in 0..(localCells[r] - 1)
                     /\ cells[r][res.val + 1] = c
                ELSE res.err = "domain_error"

\* C14: position_to_rank succeeds on every rank for every cell of the box
\* and returns the rank that owns the cell.
C14_PositionToRankTotal ==
    AllIdle =>
        \A r \in Ranks : \A c \in Cells :
            /\ position_to_rank(r, c).err = "none"
            /\ position_to_rank(r, c).val = Owner(c)

\* The partitioner state of the claim: partition, neighbors, descriptors and
\* the cell lists of every rank.
GridState ==
    << partition, localCells, ghostCells, cells, global_to_local, neighbors,
       borderCells, borderCellsNeighbors, exchangeVector >>

\* C16: every command delivered to the grid fails with UnknwonCommandError
\* and leaves partition, neighbors, descriptors and cell lists as they are.
C16_UnknownCommand ==
    [][thrown' # thrown =>
           /\ thrown' \in {"none", "UnknwonCommandError"}
           /\ thrown' = "UnknwonCommandError" => GridState' = GridState]_vars

C16_Witness == thrown = "UnknwonCommandError" /\ AfterMove

\* The structures of rank r, in the form Reinit gives them.
Structures(r) ==
    [partition |-> partition[r],
     localCells |-> localCells[r],
     ghostCells |-> ghostCells[r],
     cells |-> cells[r],
     global_to_local |-> global_to_local[r],
     neighbors |-> neighbors[r],
     borderCells |-> borderCells[r],
     borderCellsNeighbors |-> borderCellsNeighbors[r],
     exchangeVector |-> exchangeVector[r],
     oob |-> FALSE]

\* The order in which rank r draws its border cells in a call with weights w.
DrawOrder(r, w) ==
    HeapOrder(Plist(r, clear_unknown_cell_ownership(r, partition[r]), Metric(r, w)))

InFlight == UNION {Range(chan[p]) : p \in DOMAIN chan}

\* C18 as stated: a message of the first step never carries the tag of a
\* message of the second step.
C18_DistinctTags ==
    \A m1 \in InFlight : \A m2 \in InFlight :
        m1.step # m2.step => m1.tag # m2.tag

\* C18, amended: both steps send with the same tag, and still every receive
\* of a step is matched with a message of that step, because the messages
\* of one sender are matched in the order sent and a rank posts the second
\* step's receives after the first step's have completed.
C18_NoAlias ==
    /\ \A m \in InFlight : m.tag = TagCells /\ m.tag = TagNeighbourhood
    /\ \A r \in Ranks : \A i \in 1..Len(received[r]) :
           /\ pc[r] = "step2" => received[r][i].step = 1
           /\ pc[r] \in {"idle", "step1"} => received[r][i].step = 2

\* A rank has completed its receives of the first step and a message of the
\* second step, sent with the same tag, waits in its queue.
C18_Witness ==
    \E r \in Ranks : \E n \in Ranks :
        /\ pc[r] = "step2"
        /\ received[r] # << >>
        /\ \A i \in 1..Len(received[r]) : received[r][i].step = 1
        /\ Len(chan[<< n, r >>]) = 1
        /\ chan[<< n, r >>][1].step = 2
        /\ chan[<< n, r >>][1].tag = received[r][1].tag

\* C15: on a P4estGrid, cell_neighbor_index throws std::domain_error for
\* every cell index below 0 or at or above n_local_cells() and for every
\* neighbour index outside 0..26.
C15_DomainError ==
    \A r \in Ranks : pc[r] = "idle" =>
        \A cellidx \in (-1)..(m_num_local_cells[r] + 1) : \A neigh \in (-1)..27 :
            (cellidx < 0 \/ cellidx >= m_num_local_cells[r] \/ neigh \notin 0..26)
                => P4est_cell_neighbor_index(r, cellidx, neigh).err = "domain_error"

\* The rank the stated rule gives cell i for the weights w of sum > 0.
StatedRank(w, i, sum) ==
    LET q == (SumRange([k \in DOMAIN w |-> FToInt(w[k])], 1, i - 1) * comm_size) \div sum
    IN  IF q < comm_size - 1 THEN q ELSE comm_size - 1

\* C19: every call counts for every rank the cells the stated rule assigns
\* to it, the assigned rank does not decrease along the curve, and the
\* counts of all ranks add up to the number of cells.  (Where the sum of the
\* weights is 0 the quotient of the rule has no value and only the total of
\* the counts is compared.)
C19_Assignment ==
    [][\A w \in CurveWeights : SfcCount(w) =>
           /\ SumBelow(nquads_per_proc', comm_size) = ncells(gbox)
           /\ SfcSum(w).n > 0 =>
                  /\ \A p \in Ranks :
                         nquads_per_proc'[p] =
                             Cardinality({i \in 1..ncells(gbox) :
                                             StatedRank(w, i, FToInt(SfcSum(w))) = p})
                  /\ \A i \in 1..(ncells(gbox) - 1) :
                         StatedRank(w, i, FToInt(SfcSum(w)))
                             <= StatedRank(w, i + 1, FToInt(SfcSum(w)))]_vars

\* C20: while the count of some rank is zero no rank is past
\* p8est_partition_given or has returned, a rank that found its count zero
\* has ended the program on all ranks, and a rank that has returned true
\* has at least one local cell.
C20_ZeroCountFatal ==
    /\ (\E p \in Ranks : nquads_per_proc[p] = 0) =>
           \A r \in Ranks : pc[r] # "callback" /\ retval[r] # "true"
    /\ (\E r \in Ranks : pc[r] = "aborted") => \A r \in Ranks : pc[r] = "aborted"
    /\ \A r \in Ranks :
           (pc[r] = "idle" /\ retval[r] = "true") => m_num_local_cells[r] >= 1

C20_Witness ==
    /\ \E r \in Ranks : pc[r] = "aborted"
    /\ \E p \in Ranks : nquads_per_proc[p] = 0
    /\ m_num_local_cells # UniformQuads(comm_size, ncells(gbox))

\* C29: after construction, for a minimum cell size h > 0 and every axis i,
\* the grid dimension is floor(Li / h) raised to at least 1 and positive,
\* the cell size is Li / Gi, so that Gi * cell_size[i] = Li, and
\* cell_size[i] >= h whenever Li >= h.
C29_CellSize ==
    (AllIdle /\ max_range.n > 0) =>
        \A i \in 1..3 :
            /\ gbox[i] = GridSize_Exact(box_l, max_range)[i]
            /\ gbox[i] > 0
            /\ m_cell_size[i].n * gbox[i] * box_l[i].d = box_l[i].n * m_cell_size[i].d
            /\ FMul(FFromInt(gbox[i]), m_cell_size[i]) = box_l[i]
            /\ ~FLess(box_l[i], max_range) => ~FLess(m_cell_size[i], max_range)

\* The grid of box (16, 16, 16) and minimum cell size 2 on 4 ranks with a
\* metric of ones, between two calls.
ScenarioS5 ==
    /\ comm_size = 4
    /\ metric_weight = Rat(1, 1)
    /\ box_l = << Rat(16, 1), Rat(16, 1), Rat(16, 1) >>
    /\ max_range = Rat(2, 1)
    /\ AllIdle

\* C21 as stated: with box (16, 16, 16), minimum cell size 2, 4 ranks and
\* a metric of ones every rank has 1024 local cells.
C21_Cells1024 ==
    ScenarioS5 => \A r \in Ranks : m_num_local_cells[r] = 1024

\* C21, amended: the grid has 8 x 8 x 8 = 512 cells and every rank has
\* 512 / 4 = 128 local cells, after construction and after every
\* repartition with a metric of ones.
C21_Cells128 ==
    ScenarioS5 =>
        /\ gbox = << 8, 8, 8 >>
        /\ \A r \in Ranks : m_num_local_cells[r] = 128

C21_Witness ==
    /\ ScenarioS5
    /\ \A r \in Ranks : retval[r] = "true" /\ nquads_per_proc[r] = 128

\* C22: once a repartition call with a constant positive metric has been
\* performed, a further call with the same metric counts for every rank the
\* cells it already has, so that no cell changes its owner.
C22_Idempotent ==
    [][(SfcCount(ConstantMetric) /\ \A r \in Ranks : retval[r] = "true")
               => nquads_per_proc' = m_num_local_cells]_vars

\* The state after the construction of the grid, before the first call.
Constructed == AllIdle /\ \A r \in Ranks : retval[r] = "none"

\* C23: after the construction every rank holds the same partition vector
\* without unknown entries, in which cell i belongs to the rank q with
\* q * N <= i * nprocs < (q + 1) * N; the ranks are ascending in i, and
\* every rank owns at least one cell when N >= nprocs.
C23_LinearPartition ==
    Constructed =>
        /\ \A r \in Ranks : \A i \in Cells :
               /\ partition[r][i] \in Ranks
               /\ partition[r][i] * ncells(gbox) <= i * comm_size
               /\ i * comm_size < (partition[r][i] + 1) * ncells(gbox)
        /\ \A r \in Ranks : \A i \in Cells : \A j \in Cells :
               i <= j => partition[r][i] <= partition[r][j]
        /\ ncells(gbox) >= comm_size =>
               \A r \in Ranks : localCells[r] >= 1 /\ LocalSet(r) # {}
        /\ \A r \in Ranks : LocalSet(r) = {i \in Cells : partition[r][i] = r}

C23_Witness ==
    /\ Constructed
    /\ comm_size = 4
    /\ \E r \in Ranks : \E q \in Ranks : localCells[r] # localCells[q]
    /\ \E i \in Cells : partition[0][i] = 3 /\ i % comm_size # 3

Senders == {q \in Ranks : \E y \in LocalSet(q) : partition[q][y] # q}

Tested == point # << >>

\* C26 as stated: every point of the cube on the grid is in exactly one of
\* the octagons that tile the cube.
C26_UniqueOwner == Tested => Cardinality(inside) = 1

\* C26, amended: a point of the cube on the grid is in exactly one octagon
\* when none of its coordinates is 0, and in no octagon when it lies on one
\* of the three faces of the cube through the origin.
C26_UniqueOwnerOffLowFaces ==
    Tested =>
        Cardinality(inside) = IF \A i \in 1..3 : point[i] >= 1 THEN 1 ELSE 0

\* The point is the middle vertex that eight octagons share, off the middle
\* of the cube, and one of the eight contains it.
C26_Witness ==
    /\ Tested
    /\ Len(octs) = 8
    /\ point = octs[1][1]
    /\ point # << TetraPrecision \div 2, TetraPrecision \div 2, TetraPrecision \div 2 >>
    /\ \A k \in 1..8 : contains_Closed(octs[k], point)
    /\ Cardinality(inside) = 1

Cross(u, v) ==
    << u[2] * v[3] - u[3] * v[2], u[3] * v[1] - u[1] * v[3], u[1] * v[2] - u[2] * v[1] >>

Dot(u, v) == u[1] * v[1] + u[2] * v[2] + u[3] * v[3]

\* p lies in the plane of the triangle a, b, c and within the triangle, its
\* edges included.
OnTriangle(p, a, b, c) ==
    LET n == Cross(VecSub(b, a), VecSub(c, a))
    IN  /\ Dot(n, VecSub(p, a)) = 0
        /\ Dot(Cross(VecSub(b, a), VecSub(p, a)), n) >= 0
        /\ Dot(Cross(VecSub(c, b), VecSub(p, b)), n) >= 0
        /\ Dot(Cross(VecSub(a, c), VecSub(p, c)), n) >= 0

\* p lies on one of the three faces of octagon o that are adjacent to its
\* first vertex, or on one of the three faces that are not.
OnAdjacentFace(o, p) ==
    \E t \in 1..6 : OnTriangle(p, o[TetraVertices[t][1]], o[TetraVertices[t][2]],
                                 o[TetraVertices[t][3]])

OnOppositeFace(o, p) ==
    \E t \in 1..6 : OnTriangle(p, o[TetraVertices[t][2]], o[TetraVertices[t][3]],
                                 o[TetraVertices[t][4]])

\* C27: an octagon rejects the points on the three faces opposite to its
\* first vertex, accepts the other points on the three faces adjacent to the
\* first vertex, and accepts every point of its interior.
C27_HalfFaces ==
    Tested => \A k \in 1..Len(octs) :
        /\ OnOppositeFace(octs[k], point) => k \notin inside
        /\ (OnAdjacentFace(octs[k], point) /\ ~OnOppositeFace(octs[k], point))
               => k \in inside
        /\ (/\ contains_Closed(octs[k], point)
            /\ ~OnAdjacentFace(octs[k], point)
            /\ ~OnOppositeFace(octs[k], point)) => k \in inside
        /\ k \in inside => contains_Closed(octs[k], point)

\* A point on the cut between two octagons, which is not a flat face: the
\* octagon with its first vertex next to the cut contains the point, the
\* other one does not.
C27_Witness ==
    /\ Tested
    /\ Len(octs) = 2
    /\ \E i \in 1..8 : \E j \in 1..8 : \E d \in 1..3 : octs[2][i][d] # octs[2][j][d]
                                                   /\ octs[2][i][d] \in CutHeights
                                                   /\ octs[2][j][d] \in CutHeights
    /\ OnAdjacentFace(octs[2], point)
    /\ OnOppositeFace(octs[1], point)
    /\ \A i \in 1..3 : point[i] \in 1..(TetraPrecision - 1)
    /\ inside = {2}

\* The ranks next to r in the process grid, which neighbor_ranks() returns
\* after the construction.
ProcessGridNeighbors(r) ==
    {q \in Ranks : q # r /\ (q - r) % comm_size \in {1, comm_size - 1}}

\* C24: neighbor_ranks() of a grid-based grid returns the ranks it returned
\* after the construction, in every state of every sequence of repartition
\* calls, accepted or rolled back.
C24_ConstantNeighbors ==
    \A r \in Ranks : neighbor_ranks(r) = ProcessGridNeighbors(r)

\* After an accepted round a rank has no ghost cell of one of its neighbors
\* in the process grid, and another round has been rolled back since.
C24_Witness ==
    /\ AllIdle
    /\ \A r \in Ranks : retval[r] = "false"
    /\ \E r \in Ranks : neighbor_ranks_GloMethod(r) # ProcessGridNeighbors(r)

\* The distance of the grid point of rank r from the one below it, for the
\* grid points pts.
Extent(pts, r) ==
    IF r = 0 THEN pts[0] - pts[comm_size - 1] + GridLength ELSE pts[r] - pts[r - 1]

\* C25: a round in which one of the octagons of the shifted grid points is
\* invalid is rolled back: repartition returns false on every rank without
\* a call of the callback, and the grid point, the gathered grid points, the
\* octagons, the cells and the exchange descriptors of the rank are those of
\* before the call.
C25_RollbackStep ==
    [][/\ (AllIdle /\ \E r \in Ranks : pc'[r] # "idle") =>
              /\ \A r \in Ranks :
                     /\ old_gridpoint'[r].gridpoint = gridpoint[r]
                     /\ old_gridpoint'[r].gridpoints = gridpoints[r]
                     /\ ncallbacks'[r] = 0
              /\ (\E r \in Ranks : Extent(gridpoint', r) < GridCutoff)
                     => \A r \in Ranks : pc'[r] = "conflict"
              /\ UNCHANGED << localCells, ghostCells, cells, neighbors, exchangeVector >>
       /\ \A r \in Ranks : pc[r] = "conflict" =>
              /\ pc'[r] \in {"conflict", "idle"}
              /\ old_gridpoint' = old_gridpoint
              /\ ncallbacks' = ncallbacks
              /\ UNCHANGED << localCells, ghostCells, cells, neighbors, exchangeVector >>
              /\ pc'[r] = "idle" =>
                     /\ retval'[r] = "false"
                     /\ gridpoint'[r] = old_gridpoint[r].gridpoint
                     /\ gridpoints'[r] = old_gridpoint[r].gridpoints]_vars

\* Between two calls the octagons of a rank are those of its grid points.
C25_Octagons ==
    \A r \in Ranks : pc[r] = "idle" =>
        /\ gridpoints[r][r] = gridpoint[r]
        /\ my_dom[r] = shifted_bounding_box(gridpoints[r], r)
        /\ \A q \in ProcessGridNeighbors(r) :
               neighbor_doms[r][q] = shifted_bounding_box(gridpoints[r], q)

C25_Rollback == []C25_Octagons /\ C25_RollbackStep

\* A round has been rolled back on every rank of a grid that is no longer
\* the regular one.
C25_Witness ==
    /\ AllIdle
    /\ \A r \in Ranks : retval[r] = "false" /\ ncallbacks[r] = 0
    /\ \E r \in Ranks : gridpoint[r] # RegularGridpoint(r)
    /\ \E r \in Ranks : localCells[r] = 0

\* The cells of the global grid the sub-box of rank r holds.
LocalCellsOf(r) == DomainCells(m_local_subdomain[r])

\* C28: with a 4x4x4 cell grid, 8 ranks and the same weight for every cell,
\* each rank of a KDTreeGrid owns a sub-box of 2x2x2 cells and has exactly 7
\* neighbor ranks; whatever the grid and the weights, every ghost cell a rank
\* receives from a peer is a local cell of that peer, and the sub-boxes of
\* the ranks are pairwise disjoint and cover the global cell grid.
C28_KdTree ==
    AllIdle =>
        /\ (gbox = << 4, 4, 4 >> /\ comm_size = 8) =>
               \A r \in Ranks :
                   /\ domain_size(m_local_subdomain[r]) = << 2, 2, 2 >>
                   /\ Len(m_neighbor_processes[r]) = 7
                   /\ Range(m_neighbor_processes[r]) = Ranks \ {r}
        /\ \A r \in Ranks : \A i \in 1..Len(m_boundary_info[r]) :
               \A c \in m_boundary_info[r][i].recv :
                   PeriodicCell(c) \in LocalCellsOf(m_boundary_info[r][i].dest)
        /\ \A r, q \in Ranks : r # q => LocalCellsOf(r) \cap LocalCellsOf(q) = {}
        /\ UNION {LocalCellsOf(r) : r \in Ranks} = DomainCells(GlobalDomain)

\* The 8 ranks of the 4x4x4 grid have returned from a repartition call.
C28_Witness ==
    /\ AllIdle
    /\ gbox = << 4, 4, 4 >> /\ comm_size = 8
    /\ \A r \in Ranks : retval[r] = "true" /\ m_boundary_info[r] # << >>

\* Every rank is at the callback of the same round: the locals of the round
\* are alive on all of them.
AtCallback == \A r \in Ranks : pc[r] = "callback"

\* The load of rank r in the round, and the loads of its neighbors.
LoadOf(r) == Sum(cellweights[r], 1)
NeighLoad(r, i) == LoadOf(neighbors[r][i])

\* The own load and the neighbor loads of rank r added up: the average load
\* is LoadSum(r) / (Len(neighbors[r]) + 1).
LoadSum(r) == LoadOf(r) + Sum([i \in 1..Len(neighbors[r]) |-> NeighLoad(r, i)], 1)

\* (Len(neighbors[r]) + 1) times the deficiency max(avg - load_n, 0) of the
\* i-th neighbor of rank r.
Deficiency(r, i) == Max(LoadSum(r) - (Len(neighbors[r]) + 1) * NeighLoad(r, i), 0)

\* (Len(neighbors[r]) + 1) times load - avg.
Overload(r) == (Len(neighbors[r]) + 1) * LoadOf(r) - LoadSum(r)

\* C31: with avg the mean of the own load and the neighbor loads, a rank with
\* load < avg gets the volume zero for every neighbor; otherwise the volume
\* for neighbor n is (load - avg) * max(avg - load_n, 0) / sum_m max(avg -
\* load_m, 0), so that neighbors at or above avg get zero and the volumes sum
\* to load - avg.
C31_SendVolume ==
    AtCallback => \A r \in Ranks :
        LET n == Len(neighbors[r])
            v == sendVolume[r]
            D == Sum([i \in 1..n |-> Deficiency(r, i)], 1)
        IN  /\ Len(v.num) = n
            /\ Overload(r) < 0 => ~v.nan /\ \A i \in 1..n : v.num[i] = 0
            /\ (Overload(r) >= 0 /\ D > 0) =>
                   /\ ~v.nan
                   /\ v.den > 0
                   /\ \A i \in 1..n :
                          /\ v.num[i] * (n + 1) * D = v.den * Overload(r) * Deficiency(r, i)
                          /\ (n + 1) * NeighLoad(r, i) >= LoadSum(r) => v.num[i] = 0
                   /\ (n + 1) * Sum(v.num, 1) = v.den * Overload(r)

\* A rank shares its overload among two neighbors below the average in
\* unequal parts, and another rank is below the average.
C31_Witness ==
    /\ AtCallback
    /\ \E r \in Ranks : \E i, j \in 1..Len(neighbors[r]) :
           ~sendVolume[r].nan /\ sendVolume[r].num[i] > sendVolume[r].num[j]
           /\ sendVolume[r].num[j] > 0
    /\ \E r \in Ranks : Overload(r) < 0

\* The total deficiency of the neighbors of rank r is zero.
ZeroDeficiency(r) == \A i \in 1..Len(neighbors[r]) : Deficiency(r, i) = 0

\* C32: a rank that is not underloaded and whose neighbors have a total
\* deficiency of zero sends nothing in the round: none of its cells is in a
\* send list and its partition entries for its own cells are unchanged.
C32_ZeroDeficiency ==
    AtCallback => \A r \in Ranks :
        (Overload(r) >= 0 /\ ZeroDeficiency(r)) =>
            /\ \A i \in 1..Len(sendLists[r]) : sendLists[r][i] = << >>
            /\ \A k \in 1..localCells[r] : partition[r][cells[r][k]] = r

\* The volumes of a rank with a border cell of positive weight are the NaN
\* of 0.0 / 0.0, in a round in which a rank that is not its neighbor has
\* another load.
C32_Witness ==
    /\ AtCallback
    /\ \E r \in Ranks :
           /\ Overload(r) >= 0 /\ ZeroDeficiency(r)
           /\ sendVolume[r].nan
           /\ \E k \in 1..Len(borderCells[r]) : cellweights[r][borderCells[r][k] + 1] > 0
           /\ \E q \in Ranks : LoadOf(q) # LoadOf(r)

\* The weight of the global cell c, a local cell of rank r, in the round.
WeightOf(r, c) == cellweights[r][global_to_local[r][c] + 1]

\* The total weight of the cells in the send list of rank r for its i-th
\* neighbor.
ListWeight(r, i) ==
    Sum([j \in 1..Len(sendLists[r][i]) |-> WeightOf(r, sendLists[r][i][j])], 1)

\* The cells rank r gives away in the round.
SentCells(r) == UNION {Range(sendLists[r][i]) : i \in 1..Len(sendLists[r])}

\* C33: the total weight of the cells in the send list for a neighbor does
\* not exceed the send volume computed for that neighbor, and the total
\* weight a rank gives away in a round is at most load - avg.
C33_VolumeLimit ==
    AtCallback => \A r \in Ranks :
        /\ \A i \in 1..Len(sendLists[r]) :
               IF sendVolume[r].nan THEN sendLists[r][i] = << >>
               ELSE ListWeight(r, i) * sendVolume[r].den <= sendVolume[r].num[i]
        /\ (Len(neighbors[r]) + 1)
               * Sum([i \in 1..Len(sendLists[r]) |-> ListWeight(r, i)], 1)
           <= Max(Overload(r), 0)

\* A rank sends a cell to a neighbor and keeps a border cell of positive
\* weight that has this neighbor as a candidate but no longer fits.
C33_Witness ==
    /\ AtCallback
    /\ \E r \in Ranks : \E i \in 1..Len(sendLists[r]) :
           /\ sendLists[r][i] # << >>
           /\ \E k \in 1..Len(borderCells[r]) :
                  LET b == borderCells[r][k]
                  IN  /\ cellweights[r][b + 1] > 0
                      /\ cells[r][b + 1] \notin SentCells(r)
                      /\ neighbors[r][i] \in Range(borderCellsNeighbors[r][b])
                      /\ cellweights[r][b + 1] * sendVolume[r].den
                             <= sendVolume[r].num[i]

\* The rank that owns cell c at the start of the round: between the round
\* and reinit the local cells of a rank are still those of the start.
OldOwner(c) == CHOOSE r \in Ranks : \E k \in 1..localCells[r] : cells[r][k] = c

\* The positions of cell c in the send lists of rank r.
ListPositions(r, c) ==
    {<< i, j >> \in (1..Len(sendLists[r])) \X (1..ncells(gbox)) :
        j <= Len(sendLists[r][i]) /\ sendLists[r][i][j] = c}

\* C34: a cell that changes its owner in a round was a border cell of positive
\* weight of the sending rank at the start of the round and is in exactly one
\* send list; its new owner is a neighbor of the sender that owned one of the
\* 26 neighbors of the cell; the owner of every other cell is unchanged.
C34_Frame ==
    AtCallback => \A c \in Cells :
        LET old == OldOwner(c)
            pos == ListPositions(old, c)
        IN  /\ Cardinality(pos) <= 1
            /\ \A r \in Ranks \ {old} : ListPositions(r, c) = {}
            /\ pos = {} =>
                   /\ partition[old][c] = old
                   /\ \A r \in Ranks \ {old} : partition[r][c] # r
            /\ \A ij \in pos :
                   LET new == neighbors[old][ij[1]]
                   IN  /\ global_to_local[old][c] \in Range(borderCells[old])
                       /\ WeightOf(old, c) > 0
                       /\ new # old
                       /\ partition[old][c] = new
                       /\ partition[new][c] = new
                       /\ \A r \in Ranks \ {new} : partition[r][c] # r
                       /\ \E k \in 1..26 : OldOwner(NeighTable26[gbox][c][k]) = new

\* Two ranks send cells in the same round, and some cell stays.
C34_Witness ==
    /\ AtCallback
    /\ \E r, q \in Ranks : r # q /\ SentCells(r) # {} /\ SentCells(q) # {}
    /\ \E c \in Cells : ListPositions(OldOwner(c), c) = {}

\* Those of the 26 neighbors of the local cell b of rank r, as positions of
\* its shell, that are local border cells of r.
LocalBorderNeighbors(r, b) ==
    {k \in 1..26 :
        LET n == NeighTable26[gbox][cells[r][b + 1]][k]
        IN  /\ \E l \in 1..localCells[r] : cells[r][l] = n
            /\ global_to_local[r][n] \in Range(borderCells[r])}

\* Cell a is processed before cell b: fewer local border neighbors, then the
\* higher weight, then the higher local index.
Before(r, a, b) ==
    LET na == Cardinality(LocalBorderNeighbors(r, a))
        nb == Cardinality(LocalBorderNeighbors(r, b))
        wa == cellweights[r][a + 1]
        wb == cellweights[r][b + 1]
    IN  \/ na < nb
        \/ na = nb /\ wa > wb
        \/ na = nb /\ wa = wb /\ a > b

\* The border cells of positive weight of rank r in the stated order.
StatedOrder(r) ==
    LET cand == {b \in Range(borderCells[r]) : cellweights[r][b + 1] > 0}
    IN  [k \in 1..Cardinality(cand) |->
            CHOOSE b \in cand : Cardinality({a \in cand : Before(r, a, b)}) = k - 1]

\* The send lists the stated rule gives from the i-th cell of the order on,
\* with the remaining targets left (as numerators over den).
RECURSIVE StatedLists(_, _, _, _, _, _)
StatedLists(r, order, i, left, den, lists) ==
    IF i > Len(order) THEN lists
    ELSE LET b == order[i]
             wt == cellweights[r][b + 1]
             owners == borderCellsNeighbors[r][b]
             fits == {j \in 1..Len(owners) :
                         wt * den <= left[IndexOf(neighbors[r], owners[j])]}
         IN  IF fits = {} THEN StatedLists(r, order, i + 1, left, den, lists)
             ELSE LET j == CHOOSE x \in fits : \A y \in fits : x <= y
                      t == IndexOf(neighbors[r], owners[j])
                  IN  StatedLists(r, order, i + 1, [left EXCEPT ![t] = @ - wt * den],
                                  den, [lists EXCEPT ![t] = Append(@, cells[r][b + 1])])

\* C35: compute_send_list takes the candidate border cells in the order
\* fewest local neighbors that are border cells, then highest weight, then
\* highest local index, and gives each to the first rank of its owner list
\* whose remaining send target is at least the weight of the cell, or to no
\* rank: the send lists of the round are those this rule gives.
C35_SendOrder ==
    AtCallback => \A r \in Ranks :
        sendLists[r] =
            IF AnyPositive(sendVolume[r])
            THEN StatedLists(r, StatedOrder(r), 1, sendVolume[r].num, sendVolume[r].den,
                             [i \in 1..Len(neighbors[r]) |-> << >>])
            ELSE [i \in 1..Len(neighbors[r]) |-> << >>]

\* A rank with several candidate cells sends the one that comes first in the
\* order and keeps one that would have fitted the volume as well.
C35_Witness ==
    /\ AtCallback
    /\ \E r \in Ranks : \E a, b \in Range(borderCells[r]) :
           /\ Before(r, a, b)
           /\ cellweights[r][b + 1] > 0
           /\ cells[r][a + 1] \in SentCells(r)
           /\ cells[r][b + 1] \notin SentCells(r)
           /\ \E i \in 1..Len(neighbors[r]) :
                  /\ neighbors[r][i] \in Range(borderCellsNeighbors[r][b])
                  /\ cellweights[r][b + 1] * sendVolume[r].den <= sendVolume[r].num[i]

\* Rank r owns, by the vector p, a cell of the 27-cell neighborhood of cell c.
NearOwn(r, p, c) == \E k \in 1..27 : p[NeighTable[gbox][c][k]] = r

\* C38: clear_unknown_cell_ownership sets to UNKNOWN exactly the partition
\* entries whose 27-cell neighborhood holds no cell of the rank and leaves
\* the entries of the own cells and of the cells next to an own cell as they
\* are; applied twice it gives the vector it gives applied once, and the
\* loop of reinit erases the same entries.
C38_ClearOwnership ==
    \A r \in Ranks :
        LET p == partition[r]
            q == clear_unknown_cell_ownership(r, p)
        IN  /\ DOMAIN q = DOMAIN p
            /\ \A c \in Cells :
                   /\ ~NearOwn(r, p, c) => q[c] = UNKNOWN
                   /\ NearOwn(r, p, c) => q[c] = p[c]
                   /\ p[c] = r => q[c] = r
            /\ clear_unknown_cell_ownership(r, q) = q
            /\ ReinitPartition(r, p, FALSE) = q

\* A rank about to start a round knows the owner of a cell that is not next
\* to any of its cells, and the owner of a foreign cell that is.
C38_Witness ==
    \E r \in Ranks :
        /\ pc[r] = "idle"
        /\ \E c \in Cells :
               partition[r][c] \notin {r, UNKNOWN} /\ ~NearOwn(r, partition[r], c)
        /\ \E c \in Cells :
               partition[r][c] \notin {r, UNKNOWN} /\ NearOwn(r, partition[r], c)

\* The neighbors list that the constructor builds on rank r.
ConstructedNeighbors(r) == Reinit(r, InitialPartition(comm_size, gbox), TRUE).neighbors

\* C39: the graph communicator of a rank has the ranks of its neighbors list
\* as sources and as destinations, in the order of the list, so the send
\* volume of a round has one entry per neighbor; a rank never has more than
\* one graph communicator alive, the old one being freed before the new one
\* is created.
C39_GraphCommunicator ==
    \A r \in Ranks :
        /\ ~neighcomm[r].null
        /\ neighcomm[r].sources = neighbors[r]
        /\ neighcomm[r].destinations = neighbors[r]
        /\ live_comms[r] = 1
        /\ pc[r] = "callback" =>
               /\ Len(sendVolume[r].num) = Len(neighbors[r])
               /\ Len(sendLists[r]) = Len(neighbors[r])

\* A round is run on a rank whose communicator was rebuilt with a neighbors
\* list other than the one of the constructor.
C39_Witness ==
    \E r \in Ranks :
        /\ pc[r] = "callback"
        /\ neighbors[r] # ConstructedNeighbors(r)
        /\ Len(neighbors[r]) > 0
        /\ Len(sendVolume[r].num) = Len(neighbors[r])
        /\ live_comms[r] = 1

\* The round a rank's last completed receives belong to: the one it is in,
\* or the one before when it has begun the next.
ReceiveRound(r) == IF pc[r] \in {"gather", "step1"} THEN round[r] - 1 ELSE round[r]

\* C36: under every interleaving of the ranks, with the messages of one
\* sender to one receiver with one tag matched in the order sent, a receive
\* of the first step is completed with the first-step message of the same
\* round of the neighbor it names and a receive of the second step with that
\* neighbor's second-step message of the same round; no message of the other
\* step or of another round is taken in its place.
C36_SameRound ==
    \A r \in Ranks :
        /\ received[r] # << >> => Len(received[r]) = Len(neighbors[r])
        /\ \A i \in 1..Len(received[r]) :
               /\ received[r][i].src = neighbors[r][i]
               /\ received[r][i].round = ReceiveRound(r)
               /\ received[r][i].step = (IF pc[r] = "step2" THEN 1 ELSE 2)

\* A rank has completed the receives of the second step of its second round
\* while a neighbor still waits for the second step's messages of that round.
C36_Witness ==
    \E r \in Ranks : \E n \in Ranks :
        /\ pc[r] = "idle"
        /\ round[r] = 2
        /\ received[r] # << >>
        /\ received[r][1].round = 2
        /\ received[r][1].step = 2
        /\ n \in Range(neighbors[r])
        /\ pc[n] = "step2"
        /\ round[n] = 2

\* Rank r is inside a repartition call; rank r is between two calls.
InCall(r) == r \in Ranks /\ pc[r] # "idle"
Returned(r) == r \in Ranks => pc[r] = "idle"

\* No message to rank r waits in a queue when r is between two calls, and
\* no message at all when every rank is.
Drained ==
    /\ \A r \in Ranks : pc[r] = "idle" => \A n \in Ranks : chan[<< n, r >>] = << >>
    /\ AllIdle => \A p \in DOMAIN chan : chan[p] = << >> /\ loadchan[p] = << >>

\* At most one message of a step and a round waits between two ranks, and
\* only between neighbors.
OneSendPerReceive ==
    \A p \in DOMAIN chan :
        /\ chan[p] # << >> => p[1] \in Range(neighbors[p[2]])
        /\ \A i, j \in 1..Len(chan[p]) :
               (chan[p][i].step = chan[p][j].step /\ chan[p][i].round = chan[p][j].round)
                   => i = j

\* C37: with symmetric neighbor lists and fair delivery every repartition
\* call returns on every rank: every receive of the two steps is matched by
\* the one message its neighbor sends for it, no rank stays in wait_all for
\* ever, and at the end of a round no message sent is left unreceived.
C37_Termination ==
    /\ \A r \in AllRanks : (NeighborsSymmetric /\ InCall(r)) ~> Returned(r)
    /\ [](NeighborsSymmetric => (Drained /\ OneSendPerReceive))

\* Every rank has returned from its last call, having received from two
\* neighbors in it.
C37_Witness ==
    /\ NeighborsSymmetric
    /\ \A r \in Ranks : pc[r] = "idle" /\ round[r] = MaxRounds /\ Len(received[r]) >= 1
    /\ \E r \in Ranks : Len(received[r]) >= 2
    /\ \A p \in DOMAIN chan : chan[p] = << >>

\* The largest double below the double x > 0.
FPred(x) ==
    Bind(FloatNorm(x.n, x.d, 0), LAMBDA s :
        LET m == s.a \div s.b
            mp == IF m > Pow2(Mantissa - 1) THEN m - 1 ELSE Pow2(Mantissa) - 1
            e == IF m > Pow2(Mantissa - 1) THEN s.e ELSE s.e - 1
        IN  IF e >= 0 THEN Rat(mp * Pow2(e), 1) ELSE Rat(mp, Pow2(-e)))

\* The first cells of the ranks along the curve.
FirstCells == {QuadCell(FirstQuad(r)) : r \in Ranks}

\* Coordinates of positions inside the box on axis d: the lower end, the
\* last double before the upper end, the lower faces of the first cells of
\* the ranks and of the cell in the middle.
AxisPositions(d) ==
    {x \in {Rat(0, 1), FPred(box_l[d])}
            \cup {FMul(FFromInt(c[d]), m_cell_size[d]) : c \in FirstCells}
            \cup {FMul(FFromInt(gbox[d] \div 2), m_cell_size[d])} :
        FLess(x, box_l[d])}

Positions == AxisPositions(1) \X AxisPositions(2) \X AxisPositions(3)

\* Cells of the grid: all of a small grid, on each axis the first two, the
\* middle and the last of a larger one.
AxisSample(n) == IF n <= 4 THEN 0..(n - 1) ELSE {0, 1, n \div 2, n - 1}

SampleCells == AxisSample(gbox[1]) \X AxisSample(gbox[2]) \X AxisSample(gbox[3])

\* cell_morton_idx gives different cells different indices.
MortonInjective ==
    Cardinality({cell_morton_idx(c[1], c[2], c[3]) : c \in SampleCells})
        = Cardinality(SampleCells)

\* The first Morton indices of the ranks do not decrease.
FirstIndexSorted ==
    \A i \in 1..comm_size : m_node_first_cell_idx[i] <= m_node_first_cell_idx[i + 1]

\* position_to_rank names a rank for pos, position_to_cell_index succeeds on
\* that rank and throws on every other.
LookupAgrees(pos) ==
    \E r \in {sfc_position_to_rank(pos)} :
        /\ r \in Ranks
        /\ sfc_position_to_cell_index(r, pos).err = "none"
        /\ \A q \in Ranks \ {r} : sfc_position_to_cell_index(q, pos).err = "domain_error"

\* A position with the first Morton index of rank r is attributed to r.
FirstIndexOwn(pos) ==
    \A r \in Ranks :
        pos_morton_idx(pos) = m_node_first_cell_idx[r + 1] => sfc_position_to_rank(pos) = r

\* C40: for the SFC strategy cell_morton_idx is injective on the cells of
\* the grid and the first Morton indices of the ranks are non-decreasing;
\* for every position in the box position_to_rank returns a rank r in
\* 0..nprocs-1, position_to_cell_index succeeds on r and fails on every
\* other rank, and a position whose Morton index is the first index of a
\* rank is attributed to that rank.
C40_MortonLookup ==
    AllIdle =>
        /\ MortonInjective
        /\ FirstIndexSorted
        /\ \A pos \in Positions : LookupAgrees(pos) /\ FirstIndexOwn(pos)

\* The cell coordinates computed for pos are those of a cell of the grid.
InGrid(pos) == \A d \in 1..3 : PosCell(pos)[d] < gbox[d]

\* What holds of the lookup: the indices are injective and sorted, and for
\* every position whose computed cell is a cell of the grid the two lookups
\* agree; the first index of a rank that has cells is attributed to it.
MortonLookup_InGrid ==
    AllIdle =>
        /\ MortonInjective
        /\ FirstIndexSorted
        /\ \A pos \in Positions : InGrid(pos) =>
               /\ LookupAgrees(pos)
               /\ \A r \in Ranks :
                      (m_num_local_cells[r] > 0
                           /\ pos_morton_idx(pos) = m_node_first_cell_idx[r + 1])
                          => sfc_position_to_rank(pos) = r
====
